---- MODULE Spec2Model ----
(***************************************************************************)
(* AppLockerPolicyTool: the hand-written AppLocker policy XML scanner      *)
(* (AppLockerXmlParser), the policy document assembled from rule           *)
(* collections (AppLockerPolicy_t::Policy) and the retry loop around the   *)
(* local GPO commit (LocalGPO::SaveWithRetries).                           *)
(*                                                                         *)
(* A std::wstring is a sequence of one-character strings.  Positions are   *)
(* 0-based as in the code: the character at position i of s is s[i + 1].   *)
(***************************************************************************)
EXTENDS Integers, Sequences, FiniteSets, TLC

VARIABLES
    policyParts,        \* the rule collections the input document was written from
    sPolicyXml,         \* the document handed to ParseRuleCollections
    pc,                 \* position of the document pipeline
    pass,               \* 1: the input document, 2: the document assembled from its fragments
    splitRet,           \* return value of ParseRuleCollections
    policies,           \* its five output parameters sExePolicy .. sAppxPolicy
    parsed,             \* per type: the outputs of ParseRuleCollection on that fragment
    first,              \* the results of pass 1, kept to compare pass 2 against
    rcParts,            \* the pieces the input fragment was written from
    sRuleCollectionXml, \* the fragment handed to ParseRuleCollection
    rcPc,               \* position of the fragment pipeline
    rcOut,              \* return value and output parameters of ParseRuleCollection
    swPc,               \* position inside LocalGPO::SaveWithRetries
    bComputer,          \* its argument: machine (TRUE) or user (FALSE) policy
    hr,                 \* its local hr
    retry,              \* its loop counter
    saveCalls,          \* the results of the m_pLGPO->Save calls made so far, in order
    sleeps,             \* number of Sleep(retryDelay_ms) calls made so far
    slept_ms,           \* total time slept
    extParts,           \* the pieces the extensions block of the input was written from
    extPc,              \* position of the ParseExtensions call
    extOut,             \* return value and output parameter of ParseExtensions
    gpStore,            \* the registry replica: per type, the kind of its SrpV2 subkey
    gpPc,               \* position of the GetPolicy call
    gpOut,              \* return value and output parameter sAppLockerPolicyXml of GetPolicy
    cspOK,              \* StatusOK(): the connection to the MDM bridge was made
    cspInstances,       \* per MDM class, the object instances in enumeration order
    cspPc,              \* position of the GetPolicies call
    cspOut,             \* return value and output parameter policies of GetPolicies
    lgDoc,              \* the kind of document handed to LGPO SetPolicyFromString
    lgFault,            \* the one step of the call that fails, if any
    lgWork,             \* the AppLocker subtree of the registry replica the LocalGPO object holds
    lgSaved,            \* the AppLocker subtree of the saved local GPO
    lgPc,               \* position inside SetPolicyFromString
    lgRet,              \* its return value
    lgOut,              \* the fragments of the split, and the registry write calls made so far
    lgTrace,            \* the steps taken so far, in order
    lgPrior,            \* the AppLocker subtree the saved local GPO held at the call
    detKind,            \* which parser is called twice: on a fragment or on a document
    detText,            \* the text both calls are made on
    detOther,           \* the text of the call made in between
    detPrior,           \* what the output parameters held before the first call
    detPc,              \* position in the sequence of calls
    detOut,             \* return value and output parameters of the last call
    detFirst,           \* return value and output parameters of the first call
    detCalls,           \* the texts parsed so far, in order
    comObject,          \* the object whose lifetime is followed: AppLockerPolicy_CSP or LocalGPO
    comApartment,       \* how COM is initialized on the thread before the object is made
    comFault,           \* the initialization step that fails, if any
    comPc,              \* position in the object's lifetime
    comHr,              \* m_hrInit, or the HRESULT LocalGPO::Init returned
    comHeld,            \* the interface pointers the object holds
    comLog,             \* the CoInitializeEx results and CoUninitialize calls so far, in order
    scanKind,           \* the loop followed: of ParseRuleCollections or of ParseRules
    scanText,           \* the text scanned
    scanName,           \* the rule element name ParseRules looks for
    scanPc,             \* position: in the loop or past it
    scanSt,             \* the loop's variables after the last pass
    scanPrev,           \* the scan cursor before the last pass
    scanSpans,          \* the spans captured so far, in order
    m_pLGPO,            \* LocalGPO::Save: whether the policy interface was created
    svPc,               \* position inside LocalGPO::Save
    hrComputer,         \* result of the machine-policy commit
    hrUser,             \* result of the user-policy commit
    svRet,              \* what LocalGPO::Save returned
    svLog,              \* the SaveWithRetries calls made, with the commit attempts of each
    dwTree,             \* DirWalker: the directories below the root and the order the system lists them in
    dwRoot,             \* DirWalker: what szRootDir names
    m_dirsToProcess,    \* DirWalker: the queue of directories to process
    dwPc,               \* position of the caller in the documented loop
    sCurrDir,           \* the output of the last GetCurrent
    dwRet,              \* what the last call returned
    dwProcessed,        \* the directories the loop body processed, in order
    dwProbes,           \* calls made after the loop ended
    ecTree,             \* EmergencyClean: the directories under System32\AppLocker and their listing order
    ecFiles,            \* EmergencyClean: the files under those directories before the call
    ecFault,            \* EmergencyClean: the one thing that goes wrong, if any
    ecLeft,             \* the directories and files still on disk
    ecPc,               \* position inside DeleteAppLockerBinaryFiles
    fileInfoCollection, \* the listing RecursiveFileList produced
    ixFileInfo,         \* index of the first loop, counted from 0
    directories,        \* the std::set of directory paths not yet visited by the second loop
    bSuccess,           \* the return value being built
    strErrorInfo,       \* the lines written to the error stream
    sErrorInfo,         \* the error text output
    ecLog               \* the DeleteFileW and RemoveDirectoryW calls made, with their results

docVars == <<policyParts, sPolicyXml, pc, pass, splitRet, policies, parsed, first>>
rcVars == <<rcParts, sRuleCollectionXml, rcPc, rcOut>>
swVars == <<swPc, bComputer, hr, retry, saveCalls, sleeps, slept_ms>>
extVars == <<extParts, extPc, extOut>>
gpVars == <<gpStore, gpPc, gpOut>>
cspVars == <<cspOK, cspInstances, cspPc, cspOut>>
lgVars == <<lgDoc, lgFault, lgWork, lgSaved, lgPc, lgRet, lgOut, lgTrace, lgPrior>>
detVars == <<detKind, detText, detOther, detPrior, detPc, detOut, detFirst, detCalls>>
comVars == <<comObject, comApartment, comFault, comPc, comHr, comHeld, comLog>>
scanVars == <<scanKind, scanText, scanName, scanPc, scanSt, scanPrev, scanSpans>>
saveVars == <<m_pLGPO, svPc, hrComputer, hrUser, svRet, svLog>>
walkVars == <<dwTree, dwRoot, m_dirsToProcess, dwPc, sCurrDir, dwRet, dwProcessed, dwProbes>>
cleanVars == <<ecTree, ecFiles, ecFault, ecLeft, ecPc, fileInfoCollection, ixFileInfo, directories, bSuccess, strErrorInfo, sErrorInfo, ecLog>>
vars == <<docVars, rcVars, swVars, extVars, gpVars, cspVars, lgVars, detVars, comVars, scanVars, saveVars, walkVars, cleanVars>>

\* what the actions of one pipeline leave alone: the variables of the others
notDocVars == <<rcVars, swVars, extVars, gpVars, cspVars, lgVars, detVars, comVars, scanVars, saveVars, walkVars, cleanVars>>
notRcVars == <<docVars, swVars, extVars, gpVars, cspVars, lgVars, detVars, comVars, scanVars, saveVars, walkVars, cleanVars>>
notSwVars == <<docVars, rcVars, extVars, gpVars, cspVars, lgVars, detVars, comVars, scanVars, saveVars, walkVars, cleanVars>>
notExtVars == <<docVars, rcVars, swVars, gpVars, cspVars, lgVars, detVars, comVars, scanVars, saveVars, walkVars, cleanVars>>
notGpVars == <<docVars, rcVars, swVars, extVars, cspVars, lgVars, detVars, comVars, scanVars, saveVars, walkVars, cleanVars>>
notCspVars == <<docVars, rcVars, swVars, extVars, gpVars, lgVars, detVars, comVars, scanVars, saveVars, walkVars, cleanVars>>
notLgVars == <<docVars, rcVars, swVars, extVars, gpVars, cspVars, detVars, comVars, scanVars, saveVars, walkVars, cleanVars>>
notDetVars == <<docVars, rcVars, swVars, extVars, gpVars, cspVars, lgVars, comVars, scanVars, saveVars, walkVars, cleanVars>>
notComVars == <<docVars, rcVars, swVars, extVars, gpVars, cspVars, lgVars, detVars, scanVars, saveVars, walkVars, cleanVars>>
notScanVars == <<docVars, rcVars, swVars, extVars, gpVars, cspVars, lgVars, detVars, comVars, saveVars, walkVars, cleanVars>>
notSaveVars == <<docVars, rcVars, swVars, extVars, gpVars, cspVars, lgVars, detVars, comVars, scanVars, walkVars, cleanVars>>
notWalkVars == <<docVars, rcVars, swVars, extVars, gpVars, cspVars, lgVars, detVars, comVars, scanVars, saveVars, cleanVars>>
notCleanVars == <<docVars, rcVars, swVars, extVars, gpVars, cspVars, lgVars, detVars, comVars, scanVars, saveVars, walkVars>>

----------------------------------------------------------------------------
(* Bounds of the model *)

\* rule collections written into one input document
MaxRC == 2
\* rule elements written into one fragment handed to ParseRuleCollection
MaxRules == 2

----------------------------------------------------------------------------
(* Text *)

\* std::wstring::npos, the not-found result of find
npos == -1

DQ == <<"\"">>
SP == <<" ">>
EQ == <<"=">>
GT == <<">">>
sEndl == <<"\n">>

wRuleCollection ==
    <<"R","u","l","e","C","o","l","l","e","c","t","i","o","n">>
wType ==
    <<"T","y","p","e">>
wEnforcementMode ==
    <<"E","n","f","o","r","c","e","m","e","n","t","M","o","d","e">>
wEnabled ==
    <<"E","n","a","b","l","e","d">>
wAuditOnly ==
    <<"A","u","d","i","t","O","n","l","y">>
wNotConfigured ==
    <<"N","o","t","C","o","n","f","i","g","u","r","e","d">>
wExe ==
    <<"E","x","e">>
wDll ==
    <<"D","l","l">>
wMsi ==
    <<"M","s","i">>
wScr ==
    <<"S","c","r">>
wApp ==
    <<"A","p","p">>
wScript ==
    <<"S","c","r","i","p","t">>
wAppx ==
    <<"A","p","p","x">>
wXyz ==
    <<"X","y","z">>
wBogus ==
    <<"B","o","g","u","s">>
wFilePathRule ==
    <<"F","i","l","e","P","a","t","h","R","u","l","e">>
wFilePublisherRule ==
    <<"F","i","l","e","P","u","b","l","i","s","h","e","r","R","u","l","e">>
wFileHashRule ==
    <<"F","i","l","e","H","a","s","h","R","u","l","e">>
wId ==
    <<"I","d">>
wIdentity ==
    <<"I","d","e","n","t","i","t","y">>
wName ==
    <<"N","a","m","e">>
wConditions ==
    <<"C","o","n","d","i","t","i","o","n","s">>
wNotEnabled ==
    <<"N","o","t","E","n","a","b","l","e","d">>
wServicesOnly ==
    <<"S","e","r","v","i","c","e","s","O","n","l","y">>

szPolicyRootTagname ==
    <<"A","p","p","L","o","c","k","e","r","P","o","l","i","c","y">>
szRuleCollectionsExtensions ==
    <<"R","u","l","e","C","o","l","l","e","c","t","i","o","n","E","x","t","e","n","s","i","o","n","s">>
szThresholdExtensions ==
    <<"T","h","r","e","s","h","o","l","d","E","x","t","e","n","s","i","o","n","s">>
szRedstoneExtensions ==
    <<"R","e","d","s","t","o","n","e","E","x","t","e","n","s","i","o","n","s">>
szServices ==
    <<"S","e","r","v","i","c","e","s">>
szSystemApps ==
    <<"S","y","s","t","e","m","A","p","p","s">>
szAllow ==
    <<"A","l","l","o","w">>
sXmlDeclaration ==
    <<"<","?","x","m","l"," ","v","e","r","s","i","o","n","=","\"","1",".","0","\""," ","e","n","c","o","d","i","n","g","=","\"","u","t","f","-","8","\"","?",">">>
sVersion1 ==
    <<" ","V","e","r","s","i","o","n","=","\"","1","\"",">">>

sAngle == <<"<">>
sAngleSlash == <<"<","/">>
sRuleCollectionStart == sAngle \o wRuleCollection \o SP
sEndSelfClosing == <<"/",">">>
sEndRuleCollection == sAngleSlash \o wRuleCollection \o GT

\* whether pat occurs in s at position i
MatchAt(s, pat, i) ==
    /\ i >= 0
    /\ i + Len(pat) <= Len(s)
    /\ \A k \in 1..Len(pat) : s[i + k] = pat[k]

\* the least of a set of positions, or npos when there is none
FirstPosition(at) ==
    IF at = {} THEN npos ELSE CHOOSE i \in at : \A j \in at : i <= j

\* s.find(pat, pos): the first position >= pos at which pat occurs, or npos;
\* a pos of npos is past the end of every string
find(s, pat, pos) ==
    IF pos = npos THEN npos
    ELSE FirstPosition({i \in pos..(Len(s) - Len(pat)) : MatchAt(s, pat, i)})

\* s.substr(pos, n): at most n characters from position pos (pos <= s.length())
substr(s, pos, n) ==
    SubSeq(s, pos + 1, IF pos + n > Len(s) THEN Len(s) ELSE pos + n)

----------------------------------------------------------------------------
(* AppLockerXmlParser::ParseRuleCollections: split a policy document *)

RuleCollectionTypes == <<"Exe", "Dll", "Msi", "Script", "Appx">>
TypeNames == {"Exe", "Dll", "Msi", "Script", "Appx"}

\* the output parameter of ParseRuleCollections that belongs to a type
PolicyField(t) ==
    CASE t = "Exe" -> "sExePolicy"
      [] t = "Dll" -> "sDllPolicy"
      [] t = "Msi" -> "sMsiPolicy"
      [] t = "Script" -> "sScriptPolicy"
      [] t = "Appx" -> "sAppxPolicy"

EmptyPolicies ==
    [sExePolicy |-> <<>>, sDllPolicy |-> <<>>, sMsiPolicy |-> <<>>,
     sScriptPolicy |-> <<>>, sAppxPolicy |-> <<>>]

\* the five output parameters after the clear() calls at entry
ClearPolicies(prior) ==
    [prior EXCEPT !.sExePolicy = <<>>, !.sDllPolicy = <<>>, !.sMsiPolicy = <<>>,
                  !.sScriptPolicy = <<>>, !.sAppxPolicy = <<>>]

\* seeded fault: the root element is not looked for
HasPolicyRoot_NoCheck(s) ==
    TRUE

\* the root element marker "<AppLockerPolicy" occurs in the text
HasPolicyRoot(s) ==
    npos # find(s, sAngle \o szPolicyRootTagname, 0)

\* seeded fault: a '<' before the "/>" is not looked for
NeedsEndTag_NoLT(ixEndRC, ixNextLT) ==
    npos = ixEndRC

\* the condition under which "/>" is given up for "</RuleCollection>"
NeedsEndTag(ixEndRC, ixNextLT) ==
    npos = ixEndRC \/ (npos # ixNextLT /\ ixNextLT < ixEndRC)

\* seeded fault: the end marker is left out of the captured text
SubstrLen_NoEnd(ixEndRC, sEndRC, ixRC) ==
    ixEndRC - ixRC

\* length of the captured rule collection
SubstrLen(ixEndRC, sEndRC, ixRC) ==
    ixEndRC + Len(sEndRC) - ixRC

\* seeded fault: the final else of the chain does not clear bParseOK
KnownType_Any(sType) ==
    TRUE

\* the three characters of the Type attribute are one of the five known ones
KnownType(sType) ==
    sType \in {wExe, wDll, wMsi, wScr, wApp}

\* the if / else-if chain writing the captured text to the type's output parameter
StoreFragment(out, sType, sFragment) ==
    IF sType = wExe THEN [out EXCEPT !.sExePolicy = sFragment]
    ELSE IF sType = wDll THEN [out EXCEPT !.sDllPolicy = sFragment]
    ELSE IF sType = wMsi THEN [out EXCEPT !.sMsiPolicy = sFragment]
    ELSE IF sType = wScr THEN [out EXCEPT !.sScriptPolicy = sFragment]
    ELSE IF sType = wApp THEN [out EXCEPT !.sAppxPolicy = sFragment]
    ELSE out

\* One pass through the body of the while loop.  st holds the locals ixRC and
\* bParseOK and the output parameters; span is the (start, end) of the capture
\* made by this pass, or <<>>.
SplitIteration(s, st) ==
    LET ixRC == find(s, sRuleCollectionStart, st.ixRC)
        ixType == find(s, wType, ixRC)
        ixDQ == find(s, DQ, ixType)
        sType == substr(s, ixDQ + 1, 3)
        ixNextLT == find(s, sAngle, ixDQ)
        ixSelfEnd == find(s, sEndSelfClosing, ixDQ)
        needsEndTag == NeedsEndTag(ixSelfEnd, ixNextLT)
        sEndRC == IF needsEndTag THEN sEndRuleCollection ELSE sEndSelfClosing
        ixEndRC == IF needsEndTag THEN find(s, sEndRuleCollection, ixDQ) ELSE ixSelfEnd
        substrLen == SubstrLen(ixEndRC, sEndRC, ixRC)
    IN  IF npos = ixRC
            THEN [st EXCEPT !.ixRC = npos, !.span = <<>>]
        ELSE IF npos = ixType \/ npos = ixDQ \/ npos = ixEndRC
            THEN [st EXCEPT !.ixRC = ixRC, !.bParseOK = FALSE, !.span = <<>>]
        ELSE [ixRC |-> ixRC + substrLen,
              bParseOK |-> KnownType(sType),
              out |-> StoreFragment(st.out, sType, substr(s, ixRC, substrLen)),
              span |-> <<ixRC, ixRC + substrLen>>]

RECURSIVE SplitLoop(_, _)
\* while (npos != ixRC && bParseOK)
SplitLoop(s, st) ==
    IF npos # st.ixRC /\ st.bParseOK THEN SplitLoop(s, SplitIteration(s, st)) ELSE st

\* ParseRuleCollections(sPolicyXml, sExePolicy, ..., sAppxPolicy): prior is what the
\* output parameters hold when the call is made
ParseRuleCollections(s, prior) ==
    LET cleared == ClearPolicies(prior)
        st == SplitLoop(s, [ixRC |-> 0, bParseOK |-> TRUE, out |-> cleared, span |-> <<>>])
    IN  IF ~HasPolicyRoot(s)
            THEN [ret |-> FALSE, out |-> cleared]
            ELSE [ret |-> st.bParseOK, out |-> st.out]

----------------------------------------------------------------------------
(* AppLockerXmlParser::ParseRules: the rule elements of one kind *)

\* the rule's text, from its start element through the '>' after its end element
RuleXml(s, ixRuleStart, ixRuleEnd) ==
    substr(s, ixRuleStart, ixRuleEnd + 1 - ixRuleStart)

\* seeded fault: the cursor moves on by one character instead of past the rule
RuleInfoOf_AdvanceByOne(st, ixRuleStart, sXml) ==
    LET ixId == find(sXml, wId, 0)
        ixDQ0 == find(sXml, DQ, ixId)
        ixGuidStart == ixDQ0 + 1
        ixDQ1 == find(sXml, DQ, ixGuidStart)
    IN  IF npos = ixId \/ npos = ixDQ0 \/ npos = ixDQ1
            THEN [st EXCEPT !.ixRuleStart = ixRuleStart, !.ret = FALSE, !.span = <<>>]
        ELSE [ixRuleStart |-> ixRuleStart + 1,
              rules |-> Append(st.rules,
                               [sGuid |-> substr(sXml, ixGuidStart, ixDQ1 - ixGuidStart),
                                sXml |-> sXml]),
              ret |-> TRUE,
              span |-> <<ixRuleStart, ixRuleStart + Len(sXml)>>]

\* The lower half of the loop body: the identifier between the first two dquotes
\* after "Id" in the rule's text, and the push_back.  st holds the local
\* ixRuleStart, the in/out parameter rules and, in ret, whether a return false
\* was taken; span is the (start, end) of the rule taken by this pass, or <<>>.
RuleInfoOf(st, ixRuleStart, sXml) ==
    LET ixId == find(sXml, wId, 0)
        ixDQ0 == find(sXml, DQ, ixId)
        ixGuidStart == ixDQ0 + 1
        ixDQ1 == find(sXml, DQ, ixGuidStart)
    IN  IF npos = ixId \/ npos = ixDQ0 \/ npos = ixDQ1
            THEN [st EXCEPT !.ixRuleStart = ixRuleStart, !.ret = FALSE, !.span = <<>>]
        ELSE [ixRuleStart |-> ixRuleStart + Len(sXml),
              rules |-> Append(st.rules,
                               [sGuid |-> substr(sXml, ixGuidStart, ixDQ1 - ixGuidStart),
                                sXml |-> sXml]),
              ret |-> TRUE,
              span |-> <<ixRuleStart, ixRuleStart + Len(sXml)>>]

\* One pass through the body of the while loop: the rule's start element, its end
\* element and the '>' that closes it.
RulesIteration(s, szRuleName, st) ==
    LET ixRuleStart == find(s, sAngle \o szRuleName, st.ixRuleStart)
        ixEndElem == find(s, sAngleSlash \o szRuleName, ixRuleStart)
        ixRuleEnd == find(s, GT, ixEndElem)
    IN  IF npos = ixRuleStart
            THEN [st EXCEPT !.ixRuleStart = npos, !.span = <<>>]
        ELSE IF npos = ixEndElem \/ npos = ixRuleEnd
            THEN [st EXCEPT !.ixRuleStart = ixRuleStart, !.ret = FALSE, !.span = <<>>]
        ELSE RuleInfoOf(st, ixRuleStart, RuleXml(s, ixRuleStart, ixRuleEnd))

RECURSIVE RulesLoop(_, _, _)
\* while (npos != ixRuleStart), left early by return false
RulesLoop(s, szRuleName, st) ==
    IF npos # st.ixRuleStart /\ st.ret
        THEN RulesLoop(s, szRuleName, RulesIteration(s, szRuleName, st))
        ELSE st

\* ParseRules(sRuleCollectionXml, szRuleName, rules): rules is appended to
ParseRules(s, szRuleName, rules) ==
    LET st == RulesLoop(s, szRuleName,
                        [ixRuleStart |-> 0, rules |-> rules, ret |-> TRUE, span |-> <<>>])
    IN  [ret |-> st.ret, rules |-> st.rules]

----------------------------------------------------------------------------
(* AppLockerXmlParser::ParseExtensions: the optional RuleCollectionExtensions *)

\* RuleCollectionExtensions_t after its constructor or Clear()
DefaultExtensions ==
    [bServicesModePresent |-> FALSE, dwServiceEnforcementMode |-> 0, dwAllowWindows |-> 0]

\* the text between the next two dquotes at or after ix; ok is FALSE when one is missing
QuotedValue(s, ix) ==
    LET ixDQ0 == find(s, DQ, ix)
        ixValue == ixDQ0 + 1
        ixDQ1 == find(s, DQ, ixValue)
    IN  IF npos = ixDQ0 \/ npos = ixDQ1
            THEN [ok |-> FALSE, value |-> <<>>]
            ELSE [ok |-> TRUE, value |-> substr(s, ixDQ0 + 1, ixDQ1 - ixValue)]

\* seeded fault: the final else of the chain takes the value as Enabled
ApplyServicesMode_ElseEnabled(extensions, sEnforcementMode) ==
    IF sEnforcementMode = wNotConfigured THEN extensions
    ELSE IF sEnforcementMode = wServicesOnly
        THEN [extensions EXCEPT !.bServicesModePresent = TRUE, !.dwServiceEnforcementMode = 2]
    ELSE [extensions EXCEPT !.bServicesModePresent = TRUE, !.dwServiceEnforcementMode = 1]

\* the if / else-if chain over szEnforcementModeOptions
ApplyServicesMode(extensions, sEnforcementMode) ==
    IF sEnforcementMode = wNotConfigured THEN extensions
    ELSE IF sEnforcementMode = wEnabled
        THEN [extensions EXCEPT !.bServicesModePresent = TRUE, !.dwServiceEnforcementMode = 1]
    ELSE IF sEnforcementMode = wServicesOnly
        THEN [extensions EXCEPT !.bServicesModePresent = TRUE, !.dwServiceEnforcementMode = 2]
    ELSE extensions

\* the if / else-if chain over szAllowOptions
ApplyAllow(extensions, sAllow) ==
    IF sAllow = wNotEnabled THEN [extensions EXCEPT !.dwAllowWindows = 0]
    ELSE IF sAllow = wEnabled THEN [extensions EXCEPT !.dwAllowWindows = 1]
    ELSE extensions

\* The attribute values of the two inner elements: the Services enforcement mode
\* in the threshold part, the SystemApps Allow option in the redstone part.
ExtensionValues(cleared, sThreshold, sRedstone) ==
    LET ixServicesStart == find(sThreshold, sAngle \o szServices, 0)
        ixEnforcementMode == find(sThreshold, wEnforcementMode, ixServicesStart)
        hasMode == npos # ixServicesStart /\ npos # ixEnforcementMode
        qMode == QuotedValue(sThreshold, ixEnforcementMode)
        afterServices == IF hasMode THEN ApplyServicesMode(cleared, qMode.value) ELSE cleared
        ixSystemAppsStart == find(sRedstone, sAngle \o szSystemApps, 0)
        ixAllow == find(sRedstone, szAllow, ixSystemAppsStart)
        hasAllow == npos # ixSystemAppsStart /\ npos # ixAllow
        qAllow == QuotedValue(sRedstone, ixAllow)
    IN  IF hasMode /\ ~qMode.ok THEN [ret |-> FALSE, extensions |-> cleared]
        ELSE IF hasAllow /\ ~qAllow.ok THEN [ret |-> FALSE, extensions |-> afterServices]
        ELSE IF hasAllow THEN [ret |-> TRUE, extensions |-> ApplyAllow(afterServices, qAllow.value)]
        ELSE [ret |-> TRUE, extensions |-> afterServices]

\* seeded fault: the two inner elements are not required, Services and SystemApps
\* are looked for in the whole block
ExtensionParts_ChildrenOnly(cleared, sExtensionsXml) ==
    ExtensionValues(cleared, sExtensionsXml, sExtensionsXml)

\* The ThresholdExtensions and RedstoneExtensions elements of the extensions text;
\* both must be there, each with its end element.
ExtensionParts(cleared, sExtensionsXml) ==
    LET ixThresholdStart == find(sExtensionsXml, sAngle \o szThresholdExtensions, 0)
        ixRedstoneStart == find(sExtensionsXml, sAngle \o szRedstoneExtensions, 0)
        ixThresholdEnd == find(sExtensionsXml, sAngleSlash \o szThresholdExtensions, ixThresholdStart)
        ixRedstoneEnd == find(sExtensionsXml, sAngleSlash \o szRedstoneExtensions, ixRedstoneStart)
    IN  IF npos = ixThresholdStart \/ npos = ixRedstoneStart
            THEN [ret |-> FALSE, extensions |-> cleared]
        ELSE IF npos = ixThresholdEnd \/ npos = ixRedstoneEnd
            THEN [ret |-> FALSE, extensions |-> cleared]
        ELSE ExtensionValues(cleared,
                 substr(sExtensionsXml, ixThresholdStart, ixThresholdEnd - ixThresholdStart),
                 substr(sExtensionsXml, ixRedstoneStart, ixRedstoneEnd - ixRedstoneStart))

\* seeded fault: a start element without its end element is taken as no extensions
ParseExtensions_NoEndCheck(s, prior) ==
    LET ixStart == find(s, sAngle \o szRuleCollectionsExtensions, 0)
        ixEnd == find(s, sAngleSlash \o szRuleCollectionsExtensions, ixStart)
    IN  IF npos = ixStart \/ npos = ixEnd THEN [ret |-> TRUE, extensions |-> DefaultExtensions]
        ELSE ExtensionParts(DefaultExtensions, substr(s, ixStart, ixEnd - ixStart))

\* ParseExtensions(sRuleCollectionXml, extensions)
ParseExtensions(s, prior) ==
    LET cleared == [prior EXCEPT !.bServicesModePresent = FALSE,
                                 !.dwServiceEnforcementMode = 0,
                                 !.dwAllowWindows = 0]
        ixStart == find(s, sAngle \o szRuleCollectionsExtensions, 0)
        ixEnd == find(s, sAngleSlash \o szRuleCollectionsExtensions, ixStart)
    IN  IF npos = ixStart THEN [ret |-> TRUE, extensions |-> cleared]
        ELSE IF npos = ixEnd THEN [ret |-> FALSE, extensions |-> cleared]
        ELSE ExtensionParts(cleared, substr(s, ixStart, ixEnd - ixStart))

----------------------------------------------------------------------------
(* AppLockerXmlParser::ParseRuleCollection: decode one rule collection *)

\* seeded fault: NotConfigured is not recognised
IsNotConfigured_Never(sRuleCollectionElement, ixEnforce) ==
    FALSE

\* "NotConfigured" occurs in the opening element at or after the EnforcementMode attribute
IsNotConfigured(sRuleCollectionElement, ixEnforce) ==
    npos # find(sRuleCollectionElement, wNotConfigured, ixEnforce)

\* a further ParseRules call, made only if the one before returned true
ThenParseRules(s, szRuleName, before) ==
    IF ~before.ret THEN before ELSE ParseRules(s, szRuleName, before.rules)

\* seeded fault: the publisher rules are collected before the path rules
ParseAllRules_PublisherFirst(s, rules) ==
    ThenParseRules(s, wFileHashRule,
        ThenParseRules(s, wFilePathRule,
            ParseRules(s, wFilePublisherRule, rules)))

\* the three ParseRules calls: path rules, publisher rules, hash rules
ParseAllRules(s, rules) ==
    ThenParseRules(s, wFileHashRule,
        ThenParseRules(s, wFilePublisherRule,
            ParseRules(s, wFilePathRule, rules)))

\* seeded fault: the rule list is not cleared at entry
ClearOutputs_KeepsRules(prior) ==
    [prior EXCEPT !.dwEnforcementMode = 0, !.extensions = DefaultExtensions]

\* the output parameters after the initialisation at entry
ClearOutputs(prior) ==
    [prior EXCEPT !.dwEnforcementMode = 0, !.extensions = DefaultExtensions, !.rules = <<>>]

\* the last step of ParseRuleCollection: return ParseExtensions(...)
WithExtensions(withRules, e) ==
    [withRules EXCEPT !.ret = e.ret, !.extensions = e.extensions]

\* the rules step of ParseRuleCollection: return false as soon as a ParseRules
\* call fails, with what the calls have put into rules
WithRules(s, withMode, r) ==
    IF ~r.ret THEN [withMode EXCEPT !.rules = r.rules]
    ELSE WithExtensions([withMode EXCEPT !.rules = r.rules],
                        ParseExtensions(s, withMode.extensions))

\* ParseRuleCollection(sRuleCollectionXml, dwEnforcementMode, extensions, rules):
\* prior is what the output parameters hold when the call is made
ParseRuleCollection(s, prior) ==
    LET init == [ClearOutputs(prior) EXCEPT !.ret = FALSE]
        ixFirstGT == find(s, GT, 0)
        sRuleCollectionElement == substr(s, 0, ixFirstGT)
        ixEnforce == find(sRuleCollectionElement, wEnforcementMode, 0)
        isEnabled == npos # find(sRuleCollectionElement, wEnabled, ixEnforce)
        isAuditOnly == npos # find(sRuleCollectionElement, wAuditOnly, ixEnforce)
        withMode == [init EXCEPT !.dwEnforcementMode = IF isEnabled THEN 1 ELSE 0]
    IN  IF npos = ixFirstGT THEN init
        ELSE IF npos = ixEnforce THEN init
        ELSE IF IsNotConfigured(sRuleCollectionElement, ixEnforce) THEN [init EXCEPT !.ret = TRUE]
        ELSE IF ~isEnabled /\ ~isAuditOnly THEN init
        ELSE WithRules(s, withMode, ParseAllRules(s, withMode.rules))

----------------------------------------------------------------------------
(* AppLockerPolicy_t::Policy and the m_ruleCollections text it wraps *)

\* m_ruleCollections += (sPolicy + L"\n")
AppendRuleCollection(m_ruleCollections, sPolicy) ==
    m_ruleCollections \o sPolicy \o sEndl

RECURSIVE RuleCollectionsOf(_, _)
\* m_ruleCollections built from the non-empty fragments of types[1..n], in that order
RuleCollectionsOf(out, n) ==
    IF n = 0 THEN <<>>
    ELSE LET sPolicy == out[PolicyField(RuleCollectionTypes[n])]
             before == RuleCollectionsOf(out, n - 1)
         IN  IF sPolicy = <<>> THEN before ELSE AppendRuleCollection(before, sPolicy)

\* AppLockerPolicy_t::Policy(): the full document around m_ruleCollections
Policy(m_ruleCollections) ==
    sXmlDeclaration \o sEndl
        \o sAngle \o szPolicyRootTagname \o sVersion1 \o sEndl
        \o m_ruleCollections
        \o sAngleSlash \o szPolicyRootTagname \o GT

----------------------------------------------------------------------------
(* Input texts *)

Attr(name, value) == SP \o name \o EQ \o DQ \o value \o DQ

\* identifiers "G0" .. "G9"
Guid(i) == <<"G", <<"0","1","2","3","4","5","6","7","8","9">>[i + 1]>>

\* a rule element with its own end tag and one self-closing child element
RuleElement(name, i) ==
    sAngle \o name \o Attr(wId, Guid(i)) \o GT
        \o sAngle \o wConditions \o sEndSelfClosing
        \o sAngleSlash \o name \o GT

\* the opening RuleCollection element up to, not including, its closing '>' or "/>"
RCOpen(type, mode) ==
    sAngle \o wRuleCollection \o Attr(wType, type) \o Attr(wEnforcementMode, mode)

\* a complete RuleCollectionExtensions block
ExtensionsBlock(sServicesMode, sAllow) ==
    sAngle \o szRuleCollectionsExtensions \o GT
        \o sAngle \o szThresholdExtensions \o GT
        \o sAngle \o szServices \o Attr(wEnforcementMode, sServicesMode) \o sEndSelfClosing
        \o sAngleSlash \o szThresholdExtensions \o GT
        \o sAngle \o szRedstoneExtensions \o GT
        \o sAngle \o szSystemApps \o Attr(szAllow, sAllow) \o sEndSelfClosing
        \o sAngleSlash \o szRedstoneExtensions \o GT
        \o sAngleSlash \o szRuleCollectionsExtensions \o GT

\* the rule collections an input document is written from
WellFormedRC == {"ExeSelf", "ExeEmpty", "ExeRules", "ExeAudit", "ExeSelfRule", "Dll",
                 "MsiNotConfigured", "Script", "Appx"}
MalformedRC == {"Xyz", "NoType", "NoQuote", "NoEnd"}
RCKinds == WellFormedRC \cup MalformedRC

\* the type a well-formed rule collection declares
RCType(k) ==
    CASE k \in {"ExeSelf", "ExeEmpty", "ExeRules", "ExeAudit", "ExeSelfRule"} -> "Exe"
      [] k = "Dll" -> "Dll"
      [] k = "MsiNotConfigured" -> "Msi"
      [] k = "Script" -> "Script"
      [] k = "Appx" -> "Appx"
      [] OTHER -> "none"

RCText(k) ==
    CASE k = "ExeSelf" -> RCOpen(wExe, wEnabled) \o sEndSelfClosing
      [] k = "ExeEmpty" -> RCOpen(wExe, wEnabled) \o GT \o sEndRuleCollection
      [] k = "ExeRules" -> RCOpen(wExe, wEnabled) \o GT
                             \o RuleElement(wFileHashRule, 1) \o RuleElement(wFilePathRule, 2)
                             \o sEndRuleCollection
      [] k = "ExeAudit" -> RCOpen(wExe, wAuditOnly) \o GT
                             \o RuleElement(wFilePublisherRule, 3)
                             \o sEndRuleCollection
      [] k = "ExeSelfRule" -> RCOpen(wExe, wEnabled) \o GT
                             \o sAngle \o wFilePathRule \o Attr(wId, Guid(8)) \o sEndSelfClosing
                             \o sEndRuleCollection
      [] k = "Dll" -> RCOpen(wDll, wAuditOnly) \o GT
                             \o RuleElement(wFilePathRule, 4)
                             \o sEndRuleCollection
      [] k = "MsiNotConfigured" -> RCOpen(wMsi, wNotConfigured) \o SP \o sEndSelfClosing
      [] k = "Script" -> RCOpen(wScript, wEnabled) \o GT
                             \o RuleElement(wFileHashRule, 5)
                             \o sEndRuleCollection
      [] k = "Appx" -> RCOpen(wAppx, wEnabled) \o GT
                             \o RuleElement(wFilePublisherRule, 6)
                             \o ExtensionsBlock(wEnabled, wEnabled)
                             \o sEndRuleCollection
      [] k = "Xyz" -> RCOpen(wXyz, wEnabled) \o sEndSelfClosing
      [] k = "NoType" -> sAngle \o wRuleCollection \o Attr(wEnforcementMode, wEnabled)
                             \o sEndSelfClosing
      [] k = "NoQuote" -> sAngle \o wRuleCollection \o SP \o wType \o EQ \o wMsi \o GT
                             \o sEndRuleCollection
      [] k = "NoEnd" -> RCOpen(wDll, wEnabled) \o GT
                             \o RuleElement(wFilePathRule, 7)

RECURSIVE Concat(_, _)
\* the texts of parts[1..n], each followed by a line break
Concat(parts, n) ==
    IF n = 0 THEN <<>> ELSE Concat(parts, n - 1) \o RCText(parts[n]) \o sEndl

\* an input document: with the root element, or the bare rule collections
DocText(hasRoot, parts) ==
    IF hasRoot THEN Policy(Concat(parts, Len(parts))) ELSE Concat(parts, Len(parts))

DocParts == UNION {[1..n -> RCKinds] : n \in 0..MaxRC}

\* what ParseRuleCollections' output parameters may hold from an earlier use
StalePolicies ==
    [sExePolicy |-> wBogus, sDllPolicy |-> wBogus, sMsiPolicy |-> wBogus,
     sScriptPolicy |-> wBogus, sAppxPolicy |-> wBogus]

\* the opening elements, rule elements and extension blocks an input fragment is written from
OpenKinds == {"Enabled", "AuditOnly", "NotConfigured", "Bogus", "NoMode", "AuditOnlyNamed"}
GoodRuleKinds == {"Path", "Publisher", "Hash"}
BadRuleKinds == {"NoId", "NoQuote", "OneQuote", "NoEndTag", "SelfClosing"}
\* well-formed, with the Id attribute after another attribute whose value holds "Id"
OddRuleKinds == {"NameFirst"}
RuleKinds == GoodRuleKinds \cup BadRuleKinds \cup OddRuleKinds
ExtKinds == {"none", "full", "noEnd", "noQuote"}

OpenText(o) ==
    CASE o = "Enabled" -> RCOpen(wExe, wEnabled)
      [] o = "AuditOnly" -> RCOpen(wExe, wAuditOnly)
      [] o = "NotConfigured" -> RCOpen(wExe, wNotConfigured)
      [] o = "Bogus" -> RCOpen(wExe, wBogus)
      [] o = "NoMode" -> sAngle \o wRuleCollection \o Attr(wType, wExe)
      [] o = "NoGT" -> RCOpen(wExe, wEnabled)
      [] o = "AuditOnlyNamed" -> RCOpen(wExe, wAuditOnly) \o Attr(wName, wEnabled)

\* the element name of a rule kind
RuleName(k) ==
    CASE k \in {"Path", "NoId", "NoEndTag", "SelfClosing", "NameFirst"} -> wFilePathRule
      [] k \in {"Publisher", "OneQuote"} -> wFilePublisherRule
      [] k \in {"Hash", "NoQuote"} -> wFileHashRule

\* the i-th rule element of a fragment
RuleText(k, i) ==
    CASE k \in GoodRuleKinds -> RuleElement(RuleName(k), i)
      [] k = "NoId" -> sAngle \o RuleName(k) \o GT \o sAngleSlash \o RuleName(k) \o GT
      [] k = "NoQuote" -> sAngle \o RuleName(k) \o SP \o wId \o EQ \o Guid(i) \o GT
                             \o sAngleSlash \o RuleName(k) \o GT
      [] k = "OneQuote" -> sAngle \o RuleName(k) \o SP \o wId \o EQ \o DQ \o Guid(i) \o GT
                             \o sAngleSlash \o RuleName(k) \o GT
      [] k = "NoEndTag" -> sAngle \o RuleName(k) \o Attr(wId, Guid(i)) \o GT
      [] k = "SelfClosing" -> sAngle \o RuleName(k) \o Attr(wId, Guid(i)) \o sEndSelfClosing
      [] k = "NameFirst" -> sAngle \o RuleName(k) \o Attr(wName, wIdentity) \o Attr(wId, Guid(i))
                             \o GT \o sAngle \o wConditions \o sEndSelfClosing
                             \o sAngleSlash \o RuleName(k) \o GT

ExtText(e) ==
    CASE e = "none" -> <<>>
      [] e = "full" -> ExtensionsBlock(wServicesOnly, wEnabled)
      [] e = "noEnd" -> sAngle \o szRuleCollectionsExtensions \o GT
      [] e = "noQuote" -> sAngle \o szRuleCollectionsExtensions \o GT
                             \o sAngle \o szThresholdExtensions \o GT
                             \o sAngle \o szServices \o SP \o wEnforcementMode \o EQ \o wEnabled
                             \o sEndSelfClosing
                             \o sAngleSlash \o szThresholdExtensions \o GT
                             \o sAngle \o szRedstoneExtensions \o sEndSelfClosing
                             \o sAngleSlash \o szRedstoneExtensions \o GT
                             \o sAngleSlash \o szRuleCollectionsExtensions \o GT

RECURSIVE RulesText(_, _)
\* the texts of the rule elements kinds[1..n]
RulesText(kinds, n) ==
    IF n = 0 THEN <<>> ELSE RulesText(kinds, n - 1) \o RuleText(kinds[n], n)

\* an input fragment
FragmentText(parts) ==
    IF parts.open = "NoGT" THEN OpenText(parts.open)
    ELSE OpenText(parts.open) \o GT
            \o RulesText(parts.rules, Len(parts.rules))
            \o ExtText(parts.ext)
            \o sEndRuleCollection

RuleSeqs == UNION {[1..n -> RuleKinds] : n \in 0..MaxRules}

FragmentParts ==
    [open : OpenKinds, rules : RuleSeqs, ext : ExtKinds]
        \cup {[open |-> "NoGT", rules |-> <<>>, ext |-> "none"]}

\* the outputs of ParseRuleCollection as the caller declares them
FreshOutputs ==
    [ret |-> FALSE, dwEnforcementMode |-> 0, extensions |-> DefaultExtensions, rules |-> <<>>]

\* what the output parameters may hold from an earlier use
StaleOutputs ==
    [ret |-> TRUE, dwEnforcementMode |-> 1,
     extensions |-> [bServicesModePresent |-> TRUE, dwServiceEnforcementMode |-> 2,
                     dwAllowWindows |-> 1],
     rules |-> <<[sGuid |-> wBogus, sXml |-> wBogus]>>]

----------------------------------------------------------------------------
(* The document pipeline: split, decode every fragment, assemble, and again *)

\* nothing decoded for a type whose fragment is empty (ApplyRuleCollection returns at once)
NotParsed == [ret |-> TRUE, dwEnforcementMode |-> 0, extensions |-> DefaultExtensions,
              rules |-> <<>>, called |-> FALSE]

NoneParsed == [t \in TypeNames |-> NotParsed]

NoFirst == [splitRet |-> FALSE, policies |-> EmptyPolicies, parsed |-> NoneParsed]

\* the caller's use of ParseRuleCollection on one fragment, with freshly declared outputs
ParseFragment(sFragment) ==
    IF Len(sFragment) = 0 THEN NotParsed
    ELSE LET r == ParseRuleCollection(sFragment, FreshOutputs)
         IN  [ret |-> r.ret, dwEnforcementMode |-> r.dwEnforcementMode,
              extensions |-> r.extensions, rules |-> r.rules, called |-> TRUE]

DocIdle ==
    /\ policyParts = <<>>
    /\ sPolicyXml = <<>>
    /\ pc = "idle"
    /\ pass = 1
    /\ splitRet = FALSE
    /\ policies = EmptyPolicies
    /\ parsed = NoneParsed
    /\ first = NoFirst

RCIdle ==
    /\ rcParts = [open |-> "NoGT", rules |-> <<>>, ext |-> "none"]
    /\ sRuleCollectionXml = <<>>
    /\ rcPc = "idle"
    /\ rcOut = FreshOutputs

SWIdle ==
    /\ swPc = "idle"
    /\ bComputer = TRUE
    /\ hr = "S_OK"
    /\ retry = 0
    /\ saveCalls = <<>>
    /\ sleeps = 0
    /\ slept_ms = 0

ExtIdle ==
    /\ extParts = [shape |-> "both", services |-> "absent", allow |-> "absent"]
    /\ extPc = "idle"
    /\ extOut = [ret |-> FALSE, extensions |-> DefaultExtensions]

GpIdle ==
    /\ gpStore = [t \in TypeNames |-> "absent"]
    /\ gpPc = "idle"
    /\ gpOut = [ret |-> FALSE, sAppLockerPolicyXml |-> <<>>]

CspIdle ==
    /\ cspOK = FALSE
    /\ cspInstances = [t \in TypeNames |-> <<>>]
    /\ cspPc = "idle"
    /\ cspOut = [ret |-> FALSE, policies |-> <<>>]

\* a registry key that is not there
NoKey == [present |-> FALSE, values |-> <<>>, rules |-> <<>>]

\* the SrpV2 key and its five rule collection subkeys, none of them there
NoTree == [present |-> FALSE, keys |-> [t \in TypeNames |-> NoKey]]

NoFault == [step |-> "none", n |-> 0]

LgIdle ==
    /\ lgDoc = "none"
    /\ lgFault = NoFault
    /\ lgWork = NoTree
    /\ lgSaved = NoTree
    /\ lgPc = "idle"
    /\ lgRet = FALSE
    /\ lgOut = [policies |-> EmptyPolicies, next |-> 1, calls |-> 0]
    /\ lgTrace = <<>>
    /\ lgPrior = NoTree

DetIdle ==
    /\ detKind = "fragment"
    /\ detText = <<>>
    /\ detOther = <<>>
    /\ detPrior = FreshOutputs
    /\ detPc = "idle"
    /\ detOut = FreshOutputs
    /\ detFirst = FreshOutputs
    /\ detCalls = <<>>

ComIdle ==
    /\ comObject = "none"
    /\ comApartment = "none"
    /\ comFault = "none"
    /\ comPc = "idle"
    /\ comHr = "S_OK"
    /\ comHeld = {}
    /\ comLog = <<>>

ScanIdle ==
    /\ scanKind = "none"
    /\ scanText = <<>>
    /\ scanName = <<>>
    /\ scanPc = "idle"
    /\ scanSt = <<>>
    /\ scanPrev = 0
    /\ scanSpans = <<>>

SaveIdle ==
    /\ m_pLGPO = FALSE
    /\ svPc = "idle"
    /\ hrComputer = "S_OK"
    /\ hrUser = "S_OK"
    /\ svRet = "S_OK"
    /\ svLog = <<>>

WalkIdle ==
    /\ dwTree = [dirs |-> {}, order |-> <<>>]
    /\ dwRoot = "none"
    /\ m_dirsToProcess = <<>>
    /\ dwPc = "idle"
    /\ sCurrDir = <<>>
    /\ dwRet = FALSE
    /\ dwProcessed = <<>>
    /\ dwProbes = 0

CleanIdle ==
    /\ ecTree = [dirs |-> {}, order |-> <<>>]
    /\ ecFiles = {}
    /\ ecFault = [kind |-> "none", path |-> <<>>]
    /\ ecLeft = [dirs |-> {}, files |-> {}]
    /\ ecPc = "idle"
    /\ fileInfoCollection = <<>>
    /\ ixFileInfo = 0
    /\ directories = {}
    /\ bSuccess = FALSE
    /\ strErrorInfo = <<>>
    /\ sErrorInfo = <<>>
    /\ ecLog = <<>>

Init ==
    /\ policyParts \in DocParts
    /\ \E hasRoot \in BOOLEAN : sPolicyXml = DocText(hasRoot, policyParts)
    /\ pc = "start"
    /\ pass = 1
    /\ splitRet = FALSE
    /\ policies \in {EmptyPolicies, StalePolicies}
    /\ parsed = NoneParsed
    /\ first = NoFirst
    /\ RCIdle
    /\ SWIdle
    /\ ExtIdle
    /\ GpIdle
    /\ CspIdle
    /\ LgIdle
    /\ DetIdle
    /\ ComIdle
    /\ ScanIdle
    /\ SaveIdle
    /\ WalkIdle
    /\ CleanIdle

\* a caller splits the document (SetPolicyFromString)
SplitDocument ==
    /\ pc = "start"
    /\ LET r == ParseRuleCollections(sPolicyXml, policies)
       IN  /\ splitRet' = r.ret
           /\ policies' = r.out
    /\ pc' = "split"
    /\ UNCHANGED <<policyParts, sPolicyXml, pass, parsed, first, notDocVars>>

\* the caller decodes each fragment of a document that was split successfully
ParseFragments ==
    /\ pc = "split"
    /\ splitRet
    /\ parsed' = [t \in TypeNames |-> ParseFragment(policies[PolicyField(t)])]
    /\ pc' = "parsed"
    /\ UNCHANGED <<policyParts, sPolicyXml, pass, splitRet, policies, first, notDocVars>>

\* the fragments are written back into one document, which is then read again
AssembleDocument ==
    /\ pc = "parsed"
    /\ pass = 1
    /\ first' = [splitRet |-> splitRet, policies |-> policies, parsed |-> parsed]
    /\ sPolicyXml' = Policy(RuleCollectionsOf(policies, Len(RuleCollectionTypes)))
    /\ pass' = 2
    /\ pc' = "start"
    /\ UNCHANGED <<policyParts, splitRet, policies, parsed, notDocVars>>

Next ==
    \/ SplitDocument
    \/ ParseFragments
    \/ AssembleDocument

Spec == Init /\ [][Next]_vars

----------------------------------------------------------------------------
(* The fragment pipeline: ParseRuleCollection on one rule collection *)

InitRC ==
    /\ rcParts \in FragmentParts
    /\ sRuleCollectionXml = FragmentText(rcParts)
    /\ rcPc = "start"
    /\ rcOut \in {FreshOutputs, StaleOutputs}
    /\ DocIdle
    /\ SWIdle
    /\ ExtIdle
    /\ GpIdle
    /\ CspIdle
    /\ LgIdle
    /\ DetIdle
    /\ ComIdle
    /\ ScanIdle
    /\ SaveIdle
    /\ WalkIdle
    /\ CleanIdle

CallParseRuleCollection ==
    /\ rcPc = "start"
    /\ rcOut' = ParseRuleCollection(sRuleCollectionXml, rcOut)
    /\ rcPc' = "done"
    /\ UNCHANGED <<rcParts, sRuleCollectionXml, notRcVars>>

NextRC == CallParseRuleCollection

SpecRC == InitRC /\ [][NextRC]_vars

----------------------------------------------------------------------------
(* LocalGPO::SaveWithRetries *)

\* the results m_pLGPO->Save can report: success, the sharing violation, other failures
HResults == {"S_OK", "hrSharingViolation", "E_ACCESSDENIED", "E_FAIL"}
hrSharingViolation == "hrSharingViolation"

retries == 20
retryDelay_ms == 500

\* seeded fault: the loop runs once more
RetryLoopGuard_OffByOne(n) == n <= retries

\* for (...; retry < retries; ...)
RetryLoopGuard(n) == n < retries

\* seeded fault: every failure is retried
IsSharingViolation_AnyFailure(h) == h # "S_OK"

\* if (hrSharingViolation == hr) before the loop; the negation of the break test inside it
IsSharingViolation(h) == hrSharingViolation = h

InitSW ==
    /\ swPc = "idle"
    /\ bComputer = TRUE
    /\ hr = "S_OK"
    /\ retry = 0
    /\ saveCalls = <<>>
    /\ sleeps = 0
    /\ slept_ms = 0
    /\ DocIdle
    /\ RCIdle
    /\ ExtIdle
    /\ GpIdle
    /\ CspIdle
    /\ LgIdle
    /\ DetIdle
    /\ ComIdle
    /\ ScanIdle
    /\ SaveIdle
    /\ WalkIdle
    /\ CleanIdle

\* SaveWithRetries(bComputer, pGuidExtension) is called
CallSaveWithRetries ==
    /\ swPc = "idle"
    /\ \E b \in BOOLEAN : bComputer' = b
    /\ swPc' = "firstSave"
    /\ UNCHANGED <<hr, retry, saveCalls, sleeps, slept_ms, notSwVars>>

\* HRESULT hr = m_pLGPO->Save(...); if (hrSharingViolation == hr) enter the for loop
FirstSave ==
    /\ swPc = "firstSave"
    /\ \E h \in HResults :
        /\ hr' = h
        /\ saveCalls' = Append(saveCalls, h)
        /\ IF IsSharingViolation(h)
              THEN retry' = 0 /\ swPc' = "loop"
              ELSE retry' = retry /\ swPc' = "return"
    /\ UNCHANGED <<bComputer, sleeps, slept_ms, notSwVars>>

\* the loop test holds: Sleep(retryDelay_ms)
SleepBeforeRetry ==
    /\ swPc = "loop"
    /\ RetryLoopGuard(retry)
    /\ sleeps' = sleeps + 1
    /\ slept_ms' = slept_ms + retryDelay_ms
    /\ swPc' = "retrySave"
    /\ UNCHANGED <<bComputer, hr, retry, saveCalls, notSwVars>>

\* hr = m_pLGPO->Save(...); if (hrSharingViolation != hr) break; else ++retry
RetrySave ==
    /\ swPc = "retrySave"
    /\ \E h \in HResults :
        /\ hr' = h
        /\ saveCalls' = Append(saveCalls, h)
        /\ IF IsSharingViolation(h)
              THEN retry' = retry + 1 /\ swPc' = "loop"
              ELSE retry' = retry /\ swPc' = "return"
    /\ UNCHANGED <<bComputer, sleeps, slept_ms, notSwVars>>

\* the loop test fails: the loop ends, return hr follows
RetriesExhausted ==
    /\ swPc = "loop"
    /\ ~RetryLoopGuard(retry)
    /\ swPc' = "return"
    /\ UNCHANGED <<bComputer, hr, retry, saveCalls, sleeps, slept_ms, notSwVars>>

NextSW ==
    \/ CallSaveWithRetries
    \/ FirstSave
    \/ SleepBeforeRetry
    \/ RetrySave
    \/ RetriesExhausted

SpecSW == InitSW /\ [][NextSW]_vars

----------------------------------------------------------------------------
(* The extensions pipeline: ParseExtensions on one fragment with an extensions block *)

\* how the block is laid out: which of the two inner elements it has, and whether
\* each has its end element
ExtShapes == {"both", "onlyThreshold", "onlyRedstone", "neither",
              "thresholdNoEnd", "redstoneNoEnd"}
\* the Services element: absent, without the attribute, or with a value written
\* with both, one or no double quote
ServicesKinds == {"absent", "noAttr", "NotConfigured", "Enabled", "ServicesOnly", "Bogus",
                  "NoOpenQuote", "NoCloseQuote", "NoQuotes"}
\* the SystemApps element, likewise
AllowKinds == {"absent", "noAttr", "NotEnabled", "Enabled", "Bogus",
               "NoOpenQuote", "NoCloseQuote", "NoQuotes"}

\* name=value written with the quotes the kind leaves in
AttrAs(k, name, value) ==
    CASE k = "NoOpenQuote" -> SP \o name \o EQ \o value \o DQ
      [] k = "NoCloseQuote" -> SP \o name \o EQ \o DQ \o value
      [] k = "NoQuotes" -> SP \o name \o EQ \o value
      [] OTHER -> Attr(name, value)

ServicesValue(k) ==
    CASE k = "NotConfigured" -> wNotConfigured
      [] k = "ServicesOnly" -> wServicesOnly
      [] k = "Bogus" -> wBogus
      [] OTHER -> wEnabled

AllowValue(k) ==
    CASE k = "NotEnabled" -> wNotEnabled
      [] k = "Bogus" -> wBogus
      [] OTHER -> wEnabled

ServicesText(k) ==
    CASE k = "absent" -> <<>>
      [] k = "noAttr" -> sAngle \o szServices \o sEndSelfClosing
      [] OTHER -> sAngle \o szServices \o AttrAs(k, wEnforcementMode, ServicesValue(k))
                      \o sEndSelfClosing

SystemAppsText(k) ==
    CASE k = "absent" -> <<>>
      [] k = "noAttr" -> sAngle \o szSystemApps \o sEndSelfClosing
      [] OTHER -> sAngle \o szSystemApps \o AttrAs(k, szAllow, AllowValue(k))
                      \o sEndSelfClosing

ThresholdText(parts) ==
    CASE parts.shape \in {"onlyRedstone", "neither"} -> <<>>
      [] parts.shape = "thresholdNoEnd" ->
            sAngle \o szThresholdExtensions \o GT \o ServicesText(parts.services)
      [] OTHER ->
            sAngle \o szThresholdExtensions \o GT \o ServicesText(parts.services)
                \o sAngleSlash \o szThresholdExtensions \o GT

RedstoneText(parts) ==
    CASE parts.shape \in {"onlyThreshold", "neither"} -> <<>>
      [] parts.shape = "redstoneNoEnd" ->
            sAngle \o szRedstoneExtensions \o GT \o SystemAppsText(parts.allow)
      [] OTHER ->
            sAngle \o szRedstoneExtensions \o GT \o SystemAppsText(parts.allow)
                \o sAngleSlash \o szRedstoneExtensions \o GT

\* an enabled Exe rule collection with one rule and a closed extensions block
ExtFragmentText(parts) ==
    RCOpen(wExe, wEnabled) \o GT
        \o RuleElement(wFilePathRule, 1)
        \o sAngle \o szRuleCollectionsExtensions \o GT
        \o ThresholdText(parts) \o RedstoneText(parts)
        \o sAngleSlash \o szRuleCollectionsExtensions \o GT
        \o sEndRuleCollection

InitExt ==
    /\ extParts \in [shape : ExtShapes, services : ServicesKinds, allow : AllowKinds]
    /\ extPc = "start"
    /\ extOut \in {[ret |-> FALSE, extensions |-> DefaultExtensions],
                   [ret |-> FALSE, extensions |-> StaleOutputs.extensions]}
    /\ DocIdle
    /\ RCIdle
    /\ SWIdle
    /\ GpIdle
    /\ CspIdle
    /\ LgIdle
    /\ DetIdle
    /\ ComIdle
    /\ ScanIdle
    /\ SaveIdle
    /\ WalkIdle
    /\ CleanIdle

\* ParseRuleCollection's call ParseExtensions(sRuleCollectionXml, extensions)
CallParseExtensions ==
    /\ extPc = "start"
    /\ extOut' = ParseExtensions(ExtFragmentText(extParts), extOut.extensions)
    /\ extPc' = "done"
    /\ UNCHANGED <<extParts, notExtVars>>

NextExt == CallParseExtensions

SpecExt == InitExt /\ [][NextExt]_vars

----------------------------------------------------------------------------
(* AppLockerPolicy_LGPO GetPolicy: the document assembled from the registry replica *)

\* the subkey name of a rule collection type, as text
KeyNameText(t) ==
    CASE t = "Exe" -> wExe
      [] t = "Dll" -> wDll
      [] t = "Msi" -> wMsi
      [] t = "Script" -> wScript
      [] t = "Appx" -> wAppx

\* a rule subkey: its "Value" is a REG_SZ text ("sz"), is of another type
\* ("notSz"), or is missing ("noValue")
RuleKey(kind, value) ==
    [kind |-> kind, value |-> value]

\* the SrpV2 subkeys the replica may hold for a type
KeyKinds == {"absent", "bare", "audit", "enabled", "odd"}

\* the content of a subkey: whether it exists, its EnforcementMode value if set,
\* and its rule subkeys in enumeration order
KeyOf(k) ==
    CASE k = "absent" -> [present |-> FALSE, modeSet |-> FALSE, mode |-> 0, rules |-> <<>>]
      [] k = "bare" -> [present |-> TRUE, modeSet |-> FALSE, mode |-> 0, rules |-> <<>>]
      [] k = "audit" -> [present |-> TRUE, modeSet |-> TRUE, mode |-> 0,
                         rules |-> <<RuleKey("sz", RuleElement(wFilePathRule, 1))>>]
      [] k = "enabled" -> [present |-> TRUE, modeSet |-> TRUE, mode |-> 1,
                           rules |-> <<RuleKey("sz", RuleElement(wFileHashRule, 2)),
                                       RuleKey("sz", RuleElement(wFilePublisherRule, 3))>>]
      [] k = "odd" -> [present |-> TRUE, modeSet |-> TRUE, mode |-> 2,
                       rules |-> <<RuleKey("notSz", wBogus),
                                   RuleKey("sz", RuleElement(wFilePathRule, 4)),
                                   RuleKey("noValue", <<>>),
                                   RuleKey("sz", RuleElement(wFilePathRule, 5))>>]

\* szMode: "NotConfigured" unless the EnforcementMode value is there and is 0 or 1
ModeName(key) ==
    IF key.modeSet /\ key.mode = 0 THEN wAuditOnly
    ELSE IF key.modeSet /\ key.mode = 1 THEN wEnabled
    ELSE wNotConfigured

RECURSIVE RuleValuesLoop(_, _, _)
\* the while loop over the rule subkeys from index dwIx on: each REG_SZ "Value" is
\* streamed out; a failed query ends the loop
RuleValuesLoop(rules, dwIx, strPolicyXml) ==
    IF dwIx > Len(rules) THEN strPolicyXml
    ELSE IF rules[dwIx].kind = "noValue" THEN strPolicyXml
    ELSE IF rules[dwIx].kind = "sz"
        THEN RuleValuesLoop(rules, dwIx + 1, strPolicyXml \o rules[dwIx].value)
    ELSE RuleValuesLoop(rules, dwIx + 1, strPolicyXml)

\* seeded fault: the element is written without its end tag
IngestRuleCollection_NoEndTag(key, sKeyName, strPolicyXml) ==
    IF ~key.present THEN [ret |-> TRUE, str |-> strPolicyXml]
    ELSE [ret |-> TRUE,
          str |-> RuleValuesLoop(key.rules, 1,
                      strPolicyXml \o sRuleCollectionStart \o wType \o EQ \o DQ \o sKeyName
                          \o DQ \o SP \o wEnforcementMode \o EQ \o DQ \o ModeName(key)
                          \o DQ \o GT \o sEndl)]

\* IngestRuleCollection(hGpoKey, sKeyName, strPolicyXml, sErrorInfo)
IngestRuleCollection(key, sKeyName, strPolicyXml) ==
    IF ~key.present THEN [ret |-> TRUE, str |-> strPolicyXml]
    ELSE [ret |-> TRUE,
          str |-> RuleValuesLoop(key.rules, 1,
                      strPolicyXml \o sRuleCollectionStart \o wType \o EQ \o DQ \o sKeyName
                          \o DQ \o SP \o wEnforcementMode \o EQ \o DQ \o ModeName(key)
                          \o DQ \o GT \o sEndl)
                    \o sEndRuleCollection \o sEndl]

RECURSIVE IngestAll(_, _, _)
\* the || chain of IngestRuleCollection calls for types[n..5], left at the first failure
IngestAll(store, n, acc) ==
    IF n > Len(RuleCollectionTypes) \/ ~acc.ret THEN acc
    ELSE IngestAll(store, n + 1,
             IngestRuleCollection(KeyOf(store[RuleCollectionTypes[n]]),
                                  KeyNameText(RuleCollectionTypes[n]), acc.str))

\* the last step of GetPolicy: on failure the output stays cleared
GetPolicyResult(ingested) ==
    IF ~ingested.ret THEN [ret |-> FALSE, sAppLockerPolicyXml |-> <<>>]
    ELSE [ret |-> TRUE,
          sAppLockerPolicyXml |-> ingested.str \o sAngleSlash \o szPolicyRootTagname \o GT]

\* GetPolicy(hKey, sAppLockerPolicyXml, sErrorInfo)
GetPolicy(store) ==
    GetPolicyResult(IngestAll(store, 1,
        [ret |-> TRUE,
         str |-> sXmlDeclaration \o sEndl
                    \o sAngle \o szPolicyRootTagname \o sVersion1 \o sEndl]))

InitGP ==
    /\ gpStore \in [TypeNames -> KeyKinds]
    /\ gpPc = "start"
    /\ gpOut \in {[ret |-> FALSE, sAppLockerPolicyXml |-> <<>>],
                  [ret |-> FALSE, sAppLockerPolicyXml |-> wBogus]}
    /\ DocIdle
    /\ RCIdle
    /\ SWIdle
    /\ ExtIdle
    /\ CspIdle
    /\ LgIdle
    /\ DetIdle
    /\ ComIdle
    /\ ScanIdle
    /\ SaveIdle
    /\ WalkIdle
    /\ CleanIdle

\* a caller reads the policy from the replica (GetLocalPolicy, GetEffectivePolicy)
CallGetPolicy ==
    /\ gpPc = "start"
    /\ gpOut' = GetPolicy(gpStore)
    /\ gpPc' = "done"
    /\ UNCHANGED <<gpStore, notGpVars>>

NextGP == CallGetPolicy

SpecGP == InitGP /\ [][NextGP]_vars

----------------------------------------------------------------------------
(* AppLockerPolicy_CSP GetPolicies: the policies collected from the MDM bridge *)

RECURSIVE SplitItems(_, _, _, _, _)
\* the getline loop of SplitStringToVector from position pos on; item is the field
\* read so far.  A delimiter ends a field; the end of the text ends the last one,
\* which is empty when the text ends with the delimiter.
SplitItems(strInput, delim, pos, item, elems) ==
    IF pos >= Len(strInput) THEN Append(elems, item)
    ELSE IF strInput[pos + 1] = delim
        THEN SplitItems(strInput, delim, pos + 1, <<>>, Append(elems, item))
    ELSE SplitItems(strInput, delim, pos + 1, Append(item, strInput[pos + 1]), elems)

\* SplitStringToVector(strInput, delim, elems): no element at all for an empty text
SplitStringToVector(strInput, delim) ==
    IF Len(strInput) = 0 THEN <<>>
    ELSE SplitItems(strInput, delim, 0, <<>>, <<>>)

\* sParentParts[sParentParts.size() - 1]
LastPart(sParentParts) ==
    sParentParts[Len(sParentParts)]

\* a property value: a string (VT_BSTR) or something else
StringValue(text) == [vt |-> "VT_BSTR", bstrVal |-> text]
OtherValue == [vt |-> "VT_NULL", bstrVal |-> <<>>]

\* GetStringProperty(pClassObject, szProperty, sValue)
GetStringProperty(pClassObject, szProperty) ==
    IF pClassObject[szProperty].vt = "VT_BSTR"
        THEN [ret |-> TRUE, sValue |-> pClassObject[szProperty].bstrVal]
    ELSE [ret |-> FALSE, sValue |-> <<>>]

\* seeded fault: a later instance of a name replaces what the name holds
StorePolicy_Replace(policies_, sPolicyName, sPolicy) ==
    [n \in (DOMAIN policies_) \cup {sPolicyName} |->
        IF n = sPolicyName THEN AppendRuleCollection(<<>>, sPolicy) ELSE policies_[n]]

\* the policy text is stored under its name: a new entry, or appended to the
\* entry the collection already has
StorePolicy(policies_, sPolicyName, sPolicy) ==
    IF sPolicyName \notin DOMAIN policies_
        THEN [n \in (DOMAIN policies_) \cup {sPolicyName} |->
                 IF n = sPolicyName THEN AppendRuleCollection(<<>>, sPolicy)
                 ELSE policies_[n]]
    ELSE [policies_ EXCEPT ![sPolicyName] = AppendRuleCollection(@, sPolicy)]

\* one retrieved instance: both properties must be strings, or it adds nothing
ReadInstance(policies_, parentId, policy) ==
    IF ~parentId.ret \/ ~policy.ret THEN policies_
    ELSE StorePolicy(policies_, LastPart(SplitStringToVector(parentId.sValue, "/")),
                     policy.sValue)

RECURSIVE GetPolicyProperties(_, _, _)
\* GetPolicyProperties(szMdmClass, policies): the instances of one class from the
\* n-th on, in enumeration order
GetPolicyProperties(instances, n, policies_) ==
    IF n > Len(instances) THEN policies_
    ELSE GetPolicyProperties(instances, n + 1,
             ReadInstance(policies_, GetStringProperty(instances[n], "ParentID"),
                          GetStringProperty(instances[n], "Policy")))

RECURSIVE AllClasses(_, _, _)
\* the five GetPolicyProperties calls, for the classes of types[n..5]
AllClasses(store, n, policies_) ==
    IF n > Len(RuleCollectionTypes) THEN policies_
    ELSE AllClasses(store, n + 1,
             GetPolicyProperties(store[RuleCollectionTypes[n]], 1, policies_))

\* GetPolicies(policies)
GetPolicies(statusOK, store) ==
    IF ~statusOK THEN [ret |-> FALSE, policies |-> <<>>]
    ELSE [ret |-> TRUE, policies |-> AllClasses(store, 1, <<>>)]

\* group names and the ParentID texts that carry them.  A ParentID is the path of
\* the instance's node under the AppLocker CSP root and is never empty.
wGroupA == <<"G","A">>
wGroupB == <<"G","B">>
wNodePath == <<".","/","V","e","n","d","o","r","/","M","S","F","T","/">>

\* the instances a class may hold, by kind
InstanceKinds == {"A", "bareA", "B", "slashEnd", "noPolicy", "noParent"}

\* the rule collection markup of the i-th instance of the class of type t
Markup(t, i) ==
    RCOpen(KeyNameText(t), wEnabled) \o GT \o RuleElement(wFilePathRule, i)
        \o sEndRuleCollection

ParentIdOf(kind) ==
    CASE kind = "A" -> StringValue(wNodePath \o wGroupA)
      [] kind = "bareA" -> StringValue(wGroupA)
      [] kind = "B" -> StringValue(wNodePath \o wGroupB)
      [] kind = "slashEnd" -> StringValue(wNodePath \o wGroupB \o <<"/">>)
      [] kind = "noPolicy" -> StringValue(wNodePath \o wGroupA)
      [] kind = "noParent" -> OtherValue

InstanceOf(kind, t, i) ==
    [ParentID |-> ParentIdOf(kind),
     Policy |-> IF kind = "noPolicy" THEN OtherValue ELSE StringValue(Markup(t, i))]

\* the enumerations a class may give
EnumerationKinds ==
    {<<>>, <<"A">>, <<"B", "bareA">>, <<"A", "noPolicy", "A">>,
     <<"slashEnd", "noParent", "B">>}

InstancesOf(t, kinds) ==
    [i \in 1..Len(kinds) |-> InstanceOf(kinds[i], t, i)]

InitCSP ==
    /\ cspOK \in BOOLEAN
    /\ \E e \in [TypeNames -> EnumerationKinds] :
          cspInstances = [t \in TypeNames |-> InstancesOf(t, e[t])]
    /\ cspPc = "start"
    /\ cspOut = [ret |-> FALSE, policies |-> <<>>]
    /\ DocIdle
    /\ RCIdle
    /\ SWIdle
    /\ ExtIdle
    /\ GpIdle
    /\ LgIdle
    /\ DetIdle
    /\ ComIdle
    /\ ScanIdle
    /\ SaveIdle
    /\ WalkIdle
    /\ CleanIdle

\* a caller lists the CSP/MDM policies
CallGetPolicies ==
    /\ cspPc = "start"
    /\ cspOut' = GetPolicies(cspOK, cspInstances)
    /\ cspPc' = "done"
    /\ UNCHANGED <<cspOK, cspInstances, notCspVars>>

NextCSP == CallGetPolicies

SpecCSP == InitCSP /\ [][NextCSP]_vars

----------------------------------------------------------------------------
(* AppLockerPolicy_LGPO SetPolicyFromString: the policy written into local GPO *)

\* RegSetValueExW(hKey, name, ...): the value is created or overwritten
SetValue(values, name, data) ==
    [n \in (DOMAIN values) \cup {name} |-> IF n = name THEN data ELSE values[n]]

\* RegCreateKeyExW(hGpoKey, sKeyPath, ...): the SrpV2 key and the subkey of the
\* type are created if they are not there, and opened as they are if they are
CreateKey(tree, t) ==
    [present |-> TRUE,
     keys |-> [tree.keys EXCEPT ![t] = [present |-> TRUE, values |-> @.values,
                                        rules |-> @.rules]]]

\* RegCreateKeyExW(hSubkey, sGuid, ...): the rule subkey, created without values
\* or opened as it is
CreateRuleKey(tree, t, sGuid) ==
    [tree EXCEPT !.keys[t].rules =
        [g \in (DOMAIN @) \cup {sGuid} |-> IF g \in DOMAIN @ THEN @[g] ELSE <<>>]]

\* RegSetValueExW(hRuleKey, szValue, 0, REG_SZ, sXml, ...)
SetRuleValue(tree, t, sGuid, sXml) ==
    [tree EXCEPT !.keys[t].rules[sGuid] = SetValue(@, "Value", sXml)]

\* the result of ApplyRuleCollection: its return value, the tree as left, and the
\* number of registry write calls made so far
Applied(ret, tree, calls) == [ret |-> ret, tree |-> tree, calls |-> calls]

RECURSIVE WriteRules(_, _, _, _, _, _)
\* the loop over the rules from the i-th on; the call numbered failAt fails, and
\* a failed call ends the loop
WriteRules(tree, t, rules, i, calls, failAt) ==
    IF i > Len(rules) THEN Applied(TRUE, tree, calls)
    ELSE IF calls + 1 = failAt THEN Applied(FALSE, tree, calls + 1)
    ELSE IF calls + 2 = failAt
        THEN Applied(FALSE, CreateRuleKey(tree, t, rules[i].sGuid), calls + 2)
    ELSE WriteRules(SetRuleValue(CreateRuleKey(tree, t, rules[i].sGuid), t,
                                 rules[i].sGuid, rules[i].sXml),
                    t, rules, i + 1, calls + 2, failAt)

\* "Write the "AllowWindows" value into this key - set to 0"
WriteAllowWindows(tree, t) ==
    [tree EXCEPT !.keys[t].values = SetValue(@, "AllowWindows", 0)]

\* RegSetValueExW(hSubkey, szEnforcementMode, 0, REG_DWORD, &dwEnforcementMode, ...)
WriteEnforcementMode(tree, t, dwEnforcementMode) ==
    [tree EXCEPT !.keys[t].values = SetValue(@, "EnforcementMode", dwEnforcementMode)]

\* the writes into the subkey once it is open: EnforcementMode, AllowWindows, rules
WriteValues(tree, t, p, calls, failAt) ==
    IF calls + 1 = failAt THEN Applied(FALSE, tree, calls + 1)
    ELSE IF calls + 2 = failAt
        THEN Applied(FALSE, WriteEnforcementMode(tree, t, p.dwEnforcementMode), calls + 2)
    ELSE WriteRules(WriteAllowWindows(WriteEnforcementMode(tree, t, p.dwEnforcementMode), t),
                    t, p.rules, 1, calls + 2, failAt)

\* seeded fault: a fragment that does not parse is passed over as a success
ApplyParsed_ParseFailureIgnored(tree, t, p, calls, failAt) ==
    IF ~p.ret THEN Applied(TRUE, tree, calls)
    ELSE IF calls + 1 = failAt THEN Applied(FALSE, tree, calls + 1)
    ELSE WriteValues(CreateKey(tree, t), t, p, calls + 1, failAt)

\* ApplyRuleCollection after the parse: p is what ParseRuleCollection gave
ApplyParsed(tree, t, p, calls, failAt) ==
    IF ~p.ret THEN Applied(FALSE, tree, calls)
    ELSE IF calls + 1 = failAt THEN Applied(FALSE, tree, calls + 1)
    ELSE WriteValues(CreateKey(tree, t), t, p, calls + 1, failAt)

\* ApplyRuleCollection(hGpoKey, sKeyName, sRuleCollectionXml, sErrorInfo)
ApplyRuleCollection(tree, t, sXml, calls, failAt) ==
    IF Len(sXml) = 0 THEN Applied(TRUE, tree, calls)
    ELSE ApplyParsed(tree, t, ParseRuleCollection(sXml, FreshOutputs), calls, failAt)

\* the highest number of a registry write call that may be the failing one
MaxRegCalls == 10

\* the one step of SetPolicyFromString that fails: a LocalGPO::Init, the
\* RegDeleteTreeW, the machine or the user commit of a Save, or the n-th
\* registry write call of the apply phase
LgFaults ==
    {[step |-> k, n |-> 0] :
        k \in {"none", "init1", "delete", "save1Machine", "save1User", "init2",
               "save2Machine", "save2User"}}
        \cup {[step |-> "reg", n |-> k] : k \in 1..MaxRegCalls}

\* the number of the failing registry write call, 0 for none
FailAt(fault) == IF fault.step = "reg" THEN fault.n ELSE 0

\* the documents handed in
LgDocKinds == {"full", "audit", "empty", "rejected", "badRule", "badFirst"}

\* a Script collection the splitter accepts and ParseRuleCollection rejects
LgBadScript ==
    RCOpen(wScript, wEnabled) \o GT \o RuleText("SelfClosing", 8) \o sEndRuleCollection

LgDocText(d) ==
    CASE d = "full" -> DocText(TRUE, <<"ExeRules", "Dll", "Appx">>)
      [] d = "audit" -> DocText(TRUE, <<"Script", "MsiNotConfigured", "ExeAudit">>)
      [] d = "empty" -> DocText(TRUE, <<>>)
      [] d = "rejected" -> DocText(FALSE, <<"ExeRules", "Dll">>)
      [] d = "badRule" -> Policy(Concat(<<"ExeRules", "Dll">>, 2) \o LgBadScript \o sEndl
                                    \o RCText("Appx") \o sEndl)
      [] d = "badFirst" -> DocText(TRUE, <<"ExeSelfRule", "Dll">>)

\* what local GPO holds before the call
LgPriorKinds == {"none", "emptyBase", "old"}

OldRuleKey == SetValue(<<>>, "Value", wBogus)

PriorTree(k) ==
    CASE k = "none" -> NoTree
      [] k = "emptyBase" -> [NoTree EXCEPT !.present = TRUE]
      [] k = "old" ->
            [present |-> TRUE,
             keys |-> [t \in TypeNames |->
                 CASE t = "Exe" -> [present |-> TRUE,
                                    values |-> SetValue(SetValue(<<>>, "EnforcementMode", 0),
                                                        "AllowWindows", 1),
                                    rules |-> [g \in {Guid(1), Guid(9)} |-> OldRuleKey]]
                   [] t = "Msi" -> [present |-> TRUE,
                                    values |-> SetValue(<<>>, "EnforcementMode", 1),
                                    rules |-> [g \in {Guid(9)} |-> OldRuleKey]]
                   [] t = "Script" -> [present |-> TRUE, values |-> <<>>, rules |-> <<>>]
                   [] OTHER -> NoKey]]

InitLG ==
    /\ lgDoc \in LgDocKinds
    /\ lgFault \in LgFaults
    /\ lgSaved \in {PriorTree(k) : k \in LgPriorKinds}
    /\ lgWork = NoTree
    /\ lgPc = "start"
    /\ lgRet = FALSE
    /\ lgOut = [policies |-> EmptyPolicies, next |-> 1, calls |-> 0]
    /\ lgTrace = <<>>
    /\ lgPrior = lgSaved
    /\ DocIdle
    /\ RCIdle
    /\ SWIdle
    /\ ExtIdle
    /\ GpIdle
    /\ CspIdle
    /\ DetIdle
    /\ ComIdle
    /\ ScanIdle
    /\ SaveIdle
    /\ WalkIdle
    /\ CleanIdle

\* seeded fault: the tree is left as it is
RegDeleteTree_Nothing(tree) ==
    tree

\* RegDeleteTreeW(lgpo.ComputerKey(), sKeyPathBase): the SrpV2 key and everything
\* below it is deleted
RegDeleteTree(tree) ==
    NoTree

\* seeded fault: Save commits nothing
Committed_Never(saved, replica, machineFails) ==
    saved

\* the saved machine policy after lgpo.Save(): the replica, unless the machine
\* commit failed
Committed(saved, replica, machineFails) ==
    IF machineFails THEN saved ELSE replica

\* the call returns
LgReturn(ret) ==
    /\ lgRet' = ret
    /\ lgPc' = "done"

\* ClearPolicy: Init fails
ClearPolicyInitFails ==
    /\ lgPc = "start"
    /\ lgFault.step = "init1"
    /\ lgTrace' = lgTrace \o <<"Init">>
    /\ LgReturn(FALSE)
    /\ UNCHANGED <<lgDoc, lgFault, lgPrior, lgWork, lgSaved, lgOut, notLgVars>>

\* ClearPolicy: there is no SrpV2 key; success, and nothing to save
ClearPolicyNothingFound ==
    /\ lgPc = "start"
    /\ lgFault.step # "init1"
    /\ ~lgSaved.present
    /\ lgWork' = lgSaved
    /\ lgTrace' = lgTrace \o <<"Init", "RegDeleteTree">>
    /\ lgPc' = "cleared"
    /\ UNCHANGED <<lgDoc, lgFault, lgPrior, lgSaved, lgRet, lgOut, notLgVars>>

\* ClearPolicy: RegDeleteTreeW fails on the loaded replica, which is dropped unsaved
ClearPolicyDeleteFails ==
    /\ lgPc = "start"
    /\ lgFault.step = "delete"
    /\ lgSaved.present
    /\ lgWork' = lgSaved
    /\ lgTrace' = lgTrace \o <<"Init", "RegDeleteTree">>
    /\ LgReturn(FALSE)
    /\ UNCHANGED <<lgDoc, lgFault, lgPrior, lgSaved, lgOut, notLgVars>>

\* ClearPolicy: the tree is deleted from the replica and the replica is saved;
\* Save fails when its machine commit fails (nothing saved) or its user commit
\* fails (the machine policy is saved all the same)
ClearPolicyDeleteAndSave ==
    /\ lgPc = "start"
    /\ lgFault.step \notin {"init1", "delete"}
    /\ lgSaved.present
    /\ lgWork' = RegDeleteTree(lgSaved)
    /\ lgTrace' = lgTrace \o <<"Init", "RegDeleteTree", "Save">>
    /\ lgSaved' = Committed(lgSaved, RegDeleteTree(lgSaved), lgFault.step = "save1Machine")
    /\ IF lgFault.step \in {"save1Machine", "save1User"}
          THEN LgReturn(FALSE)
          ELSE lgPc' = "cleared" /\ lgRet' = lgRet
    /\ UNCHANGED <<lgDoc, lgFault, lgPrior, lgOut, notLgVars>>

\* SetPolicyFromString after ClearPolicy: the second Init fails
SecondInitFails ==
    /\ lgPc = "cleared"
    /\ lgFault.step = "init2"
    /\ lgTrace' = lgTrace \o <<"Init">>
    /\ LgReturn(FALSE)
    /\ UNCHANGED <<lgDoc, lgFault, lgPrior, lgWork, lgSaved, lgOut, notLgVars>>

\* the new LocalGPO object loads the saved policy; ParseRuleCollections splits the
\* document, and a rejected document ends the call
SplitPolicy ==
    /\ lgPc = "cleared"
    /\ lgFault.step # "init2"
    /\ lgWork' = lgSaved
    /\ lgTrace' = lgTrace \o <<"Init", "ParseRuleCollections">>
    /\ LET r == ParseRuleCollections(LgDocText(lgDoc), EmptyPolicies)
       IN  /\ lgOut' = [lgOut EXCEPT !.policies = r.out]
           /\ IF r.ret THEN lgPc' = "apply" /\ lgRet' = lgRet ELSE LgReturn(FALSE)
    /\ UNCHANGED <<lgDoc, lgFault, lgPrior, lgSaved, notLgVars>>

\* the next ApplyRuleCollection call of the || chain; a failed one ends the call
ApplyNext ==
    /\ lgPc = "apply"
    /\ lgOut.next <= Len(RuleCollectionTypes)
    /\ LET t == RuleCollectionTypes[lgOut.next]
           r == ApplyRuleCollection(lgWork, t, lgOut.policies[PolicyField(t)],
                                    lgOut.calls, FailAt(lgFault))
       IN  /\ lgWork' = r.tree
           /\ lgOut' = [lgOut EXCEPT !.next = @ + 1, !.calls = r.calls]
           /\ lgTrace' = Append(lgTrace, t)
           /\ IF r.ret THEN lgPc' = lgPc /\ lgRet' = lgRet ELSE LgReturn(FALSE)
    /\ UNCHANGED <<lgDoc, lgFault, lgPrior, lgSaved, notLgVars>>

\* all five applied: the replica is saved
SavePolicy ==
    /\ lgPc = "apply"
    /\ lgOut.next > Len(RuleCollectionTypes)
    /\ lgTrace' = Append(lgTrace, "Save")
    /\ lgSaved' = Committed(lgSaved, lgWork, lgFault.step = "save2Machine")
    /\ LgReturn(lgFault.step \notin {"save2Machine", "save2User"})
    /\ UNCHANGED <<lgDoc, lgFault, lgPrior, lgWork, lgOut, notLgVars>>

NextLG ==
    \/ ClearPolicyInitFails
    \/ ClearPolicyNothingFound
    \/ ClearPolicyDeleteFails
    \/ ClearPolicyDeleteAndSave
    \/ SecondInitFails
    \/ SplitPolicy
    \/ ApplyNext
    \/ SavePolicy

SpecLG == InitLG /\ [][NextLG]_vars

----------------------------------------------------------------------------
(* Repeated parser calls that share their output parameters *)

\* the fragments and the documents the calls are made on
DetFragments ==
    {RCText(k) : k \in RCKinds}
        \cup {FragmentText([open |-> "Enabled", rules |-> <<"NoQuote", "Path">>,
                            ext |-> "none"]),
              FragmentText([open |-> "AuditOnly", rules |-> <<"Publisher">>,
                            ext |-> "full"])}

DetDocuments ==
    {LgDocText(d) : d \in LgDocKinds} \cup {DocText(TRUE, <<"Dll", "Xyz">>)}

\* one call: ParseRuleCollection on a fragment, ParseRuleCollections on a
\* document; prior is what the output parameters hold when the call is made
ParserCall(kind, text, prior) ==
    IF kind = "fragment" THEN ParseRuleCollection(text, prior)
    ELSE ParseRuleCollections(text, prior.out)

InitDet ==
    /\ \/ /\ detKind = "fragment"
          /\ detText \in DetFragments
          /\ detOther \in DetFragments
          /\ detPrior \in {FreshOutputs, StaleOutputs}
       \/ /\ detKind = "document"
          /\ detText \in DetDocuments
          /\ detOther \in DetDocuments
          /\ detPrior \in {[ret |-> FALSE, out |-> EmptyPolicies],
                           [ret |-> FALSE, out |-> StalePolicies]}
    /\ detPc = "start"
    /\ detOut = detPrior
    /\ detFirst = detPrior
    /\ detCalls = <<>>
    /\ DocIdle
    /\ RCIdle
    /\ SWIdle
    /\ ExtIdle
    /\ GpIdle
    /\ CspIdle
    /\ LgIdle
    /\ ComIdle
    /\ ScanIdle
    /\ SaveIdle
    /\ WalkIdle
    /\ CleanIdle

\* the first call on the text
FirstCall ==
    /\ detPc = "start"
    /\ detOut' = ParserCall(detKind, detText, detOut)
    /\ detFirst' = detOut'
    /\ detCalls' = Append(detCalls, detText)
    /\ detPc' = "first"
    /\ UNCHANGED <<detKind, detText, detOther, detPrior, notDetVars>>

\* a call on another text, with the same output parameters
OtherCall ==
    /\ detPc = "first"
    /\ detOut' = ParserCall(detKind, detOther, detOut)
    /\ detCalls' = Append(detCalls, detOther)
    /\ detPc' = "other"
    /\ UNCHANGED <<detKind, detText, detOther, detPrior, detFirst, notDetVars>>

\* the second call on the text, with the same output parameters
SecondCall ==
    /\ detPc \in {"first", "other"}
    /\ detOut' = ParserCall(detKind, detText, detOut)
    /\ detCalls' = Append(detCalls, detText)
    /\ detPc' = "second"
    /\ UNCHANGED <<detKind, detText, detOther, detPrior, detFirst, notDetVars>>

NextDet ==
    \/ FirstCall
    \/ OtherCall
    \/ SecondCall

SpecDet == InitDet /\ [][NextDet]_vars

----------------------------------------------------------------------------
(* COM initialization over the lifetime of AppLockerPolicy_CSP and LocalGPO *)

SUCCEEDED(h) == h \in {"S_OK", "S_FALSE"}

\* CoInitializeEx(NULL, requested) on a thread whose COM state is apartment: S_OK
\* when COM was not initialized, S_FALSE when it was in the requested mode,
\* RPC_E_CHANGED_MODE when it was in the other mode; fails says the call fails
\* for another reason
CoInitializeEx(apartment, requested, fails) ==
    IF fails THEN "E_OUTOFMEMORY"
    ELSE IF apartment = "none" THEN "S_OK"
    ELSE IF apartment = requested THEN "S_FALSE"
    ELSE "RPC_E_CHANGED_MODE"

\* the log entry of a CoInitializeEx call
InitEntry(h) == IF SUCCEEDED(h) THEN "CoInitializeEx succeeded" ELSE "CoInitializeEx failed"

\* the result of an initialization: the HRESULT, the log, the pointers held
Initialized(h, log, held) == [hr |-> h, log |-> log, held |-> held]

\* CoInitAnyThreaded(): apartment-threaded first, multithreaded on RPC_E_CHANGED_MODE
CoInitAnyThreaded(apartment, fails, log) ==
    IF CoInitializeEx(apartment, "STA", fails) = "RPC_E_CHANGED_MODE"
        THEN Initialized(CoInitializeEx(apartment, "MTA", fails),
                         log \o <<InitEntry("RPC_E_CHANGED_MODE"),
                                  InitEntry(CoInitializeEx(apartment, "MTA", fails))>>, {})
    ELSE Initialized(CoInitializeEx(apartment, "STA", fails),
                     log \o <<InitEntry(CoInitializeEx(apartment, "STA", fails))>>, {})

\* the steps of AppLockerPolicy_CSP::Initialize after COM is initialized, in order,
\* and the interface pointer a step sets when it succeeds
CspSteps == <<"CoInitializeSecurity", "CoCreateInstance", "ConnectServer", "CoSetProxyBlanket">>

\* the steps of LocalGPO::Init after CoInitializeEx
LgpoSteps == <<"CoCreateInstance", "OpenLocalMachineGPO", "GetRegistryKey machine",
               "GetRegistryKey user">>

PointerOf(object, step) ==
    CASE object = "CSP" /\ step = "CoCreateInstance" -> {"m_pLocator"}
      [] object = "CSP" /\ step = "ConnectServer" -> {"m_pServices"}
      [] object = "LGPO" /\ step = "CoCreateInstance" -> {"m_pLGPO"}
      [] object = "LGPO" /\ step = "GetRegistryKey machine" -> {"m_ComputerKey"}
      [] object = "LGPO" /\ step = "GetRegistryKey user" -> {"m_UserKey"}
      [] OTHER -> {}

RECURSIVE RunSteps(_, _, _, _, _)
\* the steps from the n-th on, up to and including the first that fails
RunSteps(object, steps, n, fault, st) ==
    IF n > Len(steps) THEN st
    ELSE IF steps[n] = fault THEN [st EXCEPT !.hr = "E_FAIL"]
    ELSE RunSteps(object, steps, n + 1, fault,
                  [st EXCEPT !.held = @ \cup PointerOf(object, steps[n])])

\* AppLockerPolicy_CSP::Uninitialize(): the pointers are released, CoUninitialize is called
Uninitialize(st) ==
    [st EXCEPT !.held = {}, !.log = Append(@, "CoUninitialize")]

\* the end of AppLockerPolicy_CSP::Initialize: "If we didn't make it all the way
\* through, clean up what we did"
CleanUpUnlessDone(st) ==
    IF SUCCEEDED(st.hr) THEN st ELSE Uninitialize(st)

\* AppLockerPolicy_CSP::Initialize()
Initialize(apartment, fault, log) ==
    CleanUpUnlessDone(
        IF SUCCEEDED(CoInitAnyThreaded(apartment, fault = "CoInitializeEx", log).hr)
            THEN RunSteps("CSP", CspSteps, 1, fault,
                          CoInitAnyThreaded(apartment, fault = "CoInitializeEx", log))
        ELSE CoInitAnyThreaded(apartment, fault = "CoInitializeEx", log))

\* the CoInitializeEx(NULL, COINIT_APARTMENTTHREADED) call of LocalGPO::Init
LgpoCoInit(apartment, fails, log) ==
    Initialized(CoInitializeEx(apartment, "STA", fails),
                Append(log, InitEntry(CoInitializeEx(apartment, "STA", fails))), {})

\* LocalGPO::Init(bReadOnly): returns at the first step that fails
LgpoInit(apartment, fault, log) ==
    IF SUCCEEDED(LgpoCoInit(apartment, fault = "CoInitializeEx", log).hr)
        THEN RunSteps("LGPO", LgpoSteps, 1, fault,
                      LgpoCoInit(apartment, fault = "CoInitializeEx", log))
    ELSE LgpoCoInit(apartment, fault = "CoInitializeEx", log)

\* LocalGPO::~LocalGPO(): keys closed, m_pLGPO released, CoUninitialize called
LgpoDestructor(st) ==
    [st EXCEPT !.held = {}, !.log = Append(@, "CoUninitialize")]

ComObjects == {"CSP", "LGPO", "LGPO read-only"}
Apartments == {"none", "STA", "MTA"}

ComFaults(object) ==
    {"none", "CoInitializeEx"}
        \cup {(IF object = "CSP" THEN CspSteps ELSE LgpoSteps)[i] : i \in 1..4}

InitCom ==
    /\ comObject \in ComObjects
    /\ comApartment \in Apartments
    /\ comFault \in ComFaults(comObject)
    /\ comPc = "start"
    /\ comHr = "S_OK"
    /\ comHeld = {}
    /\ comLog = <<>>
    /\ DocIdle
    /\ RCIdle
    /\ SWIdle
    /\ ExtIdle
    /\ GpIdle
    /\ CspIdle
    /\ LgIdle
    /\ DetIdle
    /\ ScanIdle
    /\ SaveIdle
    /\ WalkIdle
    /\ CleanIdle

ComSet(st, at) ==
    /\ comHr' = st.hr
    /\ comHeld' = st.held
    /\ comLog' = st.log
    /\ comPc' = at
    /\ UNCHANGED <<comObject, comApartment, comFault, notComVars>>

\* AppLockerPolicy_CSP::AppLockerPolicy_CSP(): the constructor calls Initialize
ConstructCsp ==
    /\ comPc = "start"
    /\ comObject = "CSP"
    /\ ComSet(Initialize(comApartment, comFault, comLog), "alive")

\* AppLockerPolicy_CSP::~AppLockerPolicy_CSP(): the destructor calls Uninitialize
DestructCsp ==
    /\ comPc = "alive"
    /\ comObject = "CSP"
    /\ ComSet(Uninitialize(Initialized(comHr, comLog, comHeld)), "destroyed")

\* LocalGPO::Init on a newly constructed object
InitLgpo ==
    /\ comPc = "start"
    /\ comObject # "CSP"
    /\ ComSet(LgpoInit(comApartment, comFault, comLog), "alive")

\* LocalGPO::~LocalGPO()
DestructLgpo ==
    /\ comPc = "alive"
    /\ comObject # "CSP"
    /\ ComSet(LgpoDestructor(Initialized(comHr, comLog, comHeld)), "destroyed")

NextCom ==
    \/ ConstructCsp
    \/ DestructCsp
    \/ InitLgpo
    \/ DestructLgpo

SpecCom == InitCom /\ [][NextCom]_vars

----------------------------------------------------------------------------
(* The scanning loops of ParseRuleCollections and ParseRules, pass by pass *)

\* the loop variables at loop entry
SplitEntry == [ixRC |-> 0, bParseOK |-> TRUE, out |-> EmptyPolicies, span |-> <<>>]
RulesEntry == [ixRuleStart |-> 0, rules |-> <<>>, ret |-> TRUE, span |-> <<>>]

\* the scan cursor: ixRC, or ixRuleStart
Cursor(kind, st) == IF kind = "split" THEN st.ixRC ELSE st.ixRuleStart

\* the loop conditions; a return false inside ParseRules leaves its loop as well
LoopGoesOn(kind, st) ==
    IF kind = "split" THEN npos # st.ixRC /\ st.bParseOK
    ELSE npos # st.ixRuleStart /\ st.ret

\* the rule element names ParseRuleCollection calls ParseRules with
RuleNames == {wFilePathRule, wFilePublisherRule, wFileHashRule}

InitScan ==
    /\ \/ /\ scanKind = "split"
          /\ \E parts \in DocParts : scanText = DocText(TRUE, parts)
          /\ scanName = <<>>
          /\ scanSt = SplitEntry
       \/ /\ scanKind = "rules"
          /\ \E rules \in RuleSeqs :
                scanText = FragmentText([open |-> "Enabled", rules |-> rules, ext |-> "none"])
          /\ scanName \in RuleNames
          /\ scanSt = RulesEntry
    /\ scanPc = "loop"
    /\ scanPrev = 0
    /\ scanSpans = <<>>
    /\ DocIdle
    /\ RCIdle
    /\ SWIdle
    /\ ExtIdle
    /\ GpIdle
    /\ CspIdle
    /\ LgIdle
    /\ DetIdle
    /\ ComIdle
    /\ SaveIdle
    /\ WalkIdle
    /\ CleanIdle

\* what a pass leaves behind
AfterPass(st) ==
    /\ scanSt' = st
    /\ scanPrev' = Cursor(scanKind, scanSt)
    /\ scanSpans' = IF st.span = <<>> THEN scanSpans ELSE Append(scanSpans, st.span)
    /\ UNCHANGED <<scanKind, scanText, scanName, scanPc, notScanVars>>

\* one pass through the body of the while loop of ParseRuleCollections
SplitPass ==
    /\ scanPc = "loop"
    /\ scanKind = "split"
    /\ LoopGoesOn(scanKind, scanSt)
    /\ AfterPass(SplitIteration(scanText, scanSt))

\* one pass through the body of the while loop of ParseRules
RulesPass ==
    /\ scanPc = "loop"
    /\ scanKind = "rules"
    /\ LoopGoesOn(scanKind, scanSt)
    /\ AfterPass(RulesIteration(scanText, scanName, scanSt))

\* the loop is left
LoopEnds ==
    /\ scanPc = "loop"
    /\ ~LoopGoesOn(scanKind, scanSt)
    /\ scanPc' = "done"
    /\ UNCHANGED <<scanKind, scanText, scanName, scanSt, scanPrev, scanSpans, notScanVars>>

NextScan ==
    \/ SplitPass
    \/ RulesPass
    \/ LoopEnds

SpecScan == InitScan /\ [][NextScan]_vars

----------------------------------------------------------------------------
(* LocalGPO::Save: the machine-policy commit, then the user-policy commit *)

\* FAILED(hr)
FAILED(h) == ~SUCCEEDED(h)

\* what m_pLGPO->Save does for one configuration: the sharing violation on the
\* first `sharing` attempts, then the result `final` on every later attempt
SaveScripts ==
    [sharing : {0, 1, retries - 1, retries, retries + 1},
     final   : HResults \ {hrSharingViolation}]

\* the result of attempt number n of m_pLGPO->Save
Attempt(script, n) ==
    IF n <= script.sharing THEN hrSharingViolation ELSE script.final

\* the for loop of SaveWithRetries, entered with the loop counter and the number
\* of commit attempts made so far
RECURSIVE RetryLoop(_, _, _)
RetryLoop(script, n, attempts) ==
    IF ~RetryLoopGuard(n) THEN [hr |-> hrSharingViolation, attempts |-> attempts]
    ELSE IF IsSharingViolation(Attempt(script, attempts + 1))
         THEN RetryLoop(script, n + 1, attempts + 1)
         ELSE [hr |-> Attempt(script, attempts + 1), attempts |-> attempts + 1]

\* SaveWithRetries as one call: its result and the number of commit attempts
SaveWithRetries(script) ==
    IF IsSharingViolation(Attempt(script, 1))
    THEN RetryLoop(script, 0, 1)
    ELSE [hr |-> Attempt(script, 1), attempts |-> 1]

\* seeded fault: the user commit's failure is returned first
SaveResult_UserFirst(hC, hU) ==
    IF FAILED(hU) THEN hU ELSE hC

\* if (FAILED(hrComputer)) return hrComputer; else return hrUser;
SaveResult(hC, hU) ==
    IF FAILED(hC) THEN hC ELSE hU

InitSave ==
    /\ m_pLGPO \in BOOLEAN
    /\ svPc = "idle"
    /\ hrComputer = "S_OK"
    /\ hrUser = "S_OK"
    /\ svRet = "S_OK"
    /\ svLog = <<>>
    /\ DocIdle
    /\ RCIdle
    /\ SWIdle
    /\ ExtIdle
    /\ GpIdle
    /\ CspIdle
    /\ LgIdle
    /\ DetIdle
    /\ ComIdle
    /\ ScanIdle
    /\ WalkIdle
    /\ CleanIdle

\* if (!m_pLGPO) return E_POINTER;
SaveWithoutInterface ==
    /\ svPc = "idle"
    /\ ~m_pLGPO
    /\ svRet' = "E_POINTER"
    /\ svPc' = "done"
    /\ UNCHANGED <<m_pLGPO, hrComputer, hrUser, svLog, notSaveVars>>

\* hrComputer = SaveWithRetries(TRUE, &RegistryId);
CommitMachine ==
    /\ svPc = "idle"
    /\ m_pLGPO
    /\ \E script \in SaveScripts :
          LET r == SaveWithRetries(script) IN
          /\ hrComputer' = r.hr
          /\ svLog' = Append(svLog, [bComputer |-> TRUE, script |-> script,
                                     attempts |-> r.attempts, hr |-> r.hr])
    /\ svPc' = "user"
    /\ UNCHANGED <<m_pLGPO, hrUser, svRet, notSaveVars>>

\* hrUser = SaveWithRetries(FALSE, &RegistryId);
CommitUser ==
    /\ svPc = "user"
    /\ \E script \in SaveScripts :
          LET r == SaveWithRetries(script) IN
          /\ hrUser' = r.hr
          /\ svLog' = Append(svLog, [bComputer |-> FALSE, script |-> script,
                                     attempts |-> r.attempts, hr |-> r.hr])
    /\ svPc' = "return"
    /\ UNCHANGED <<m_pLGPO, hrComputer, svRet, notSaveVars>>

\* the return statement of Save
ReturnSave ==
    /\ svPc = "return"
    /\ svRet' = SaveResult(hrComputer, hrUser)
    /\ svPc' = "done"
    /\ UNCHANGED <<m_pLGPO, hrComputer, hrUser, svLog, notSaveVars>>

NextSave ==
    \/ SaveWithoutInterface
    \/ CommitMachine
    \/ CommitUser
    \/ ReturnSave

SpecSave == InitSave /\ [][NextSave]_vars

----------------------------------------------------------------------------
(* DirWalker: the queue of directories and the documented loop *)

\* a directory is its path: the sequence of names from the root down; the path
\* of a subdirectory is sDirectoryPath + L"\\" + cFileName
Subdirectory(sDirectoryPath, cFileName) == Append(sDirectoryPath, cFileName)

szRootDir == <<"root">>
DirNames == {"a", "b"}
MaxDepth == 2

\* every path of at most MaxDepth names below the root
RECURSIVE PathsBelow(_, _)
PathsBelow(dir, depth) ==
    IF depth = 0 THEN {dir}
    ELSE {dir} \cup UNION {PathsBelow(Subdirectory(dir, n), depth - 1) : n \in DirNames}

\* the directory trees: the root and, with every directory, its parent
DirTrees ==
    {D \in SUBSET PathsBelow(szRootDir, MaxDepth) :
        /\ szRootDir \in D
        /\ \A p \in D : Len(p) > 1 => SubSeq(p, 1, Len(p) - 1) \in D}

\* the orders FindFirstFileEx / FindNextFileW may report the names in
ListingOrders == {<<"a", "b">>, <<"b", "a">>}

\* GetSubdirectories(dir, vSubdirs): the full paths of the subdirectories of dir,
\* in the order the system reports them
GetSubdirectories(tree, dir) ==
    LET names == SelectSeq(tree.order, LAMBDA n : Subdirectory(dir, n) \in tree.dirs)
    IN  [i \in 1..Len(names) |-> Subdirectory(dir, names[i])]

\* DirWalker::Done
Done(queue) == queue = <<>>

\* DirWalker::GetCurrent
GetCurrent(queue) ==
    IF queue = <<>>
    THEN [ret |-> FALSE, sCurrDir |-> <<>>]
    ELSE [ret |-> TRUE, sCurrDir |-> Head(queue)]

\* seeded fault: the subdirectories go to the front of the queue
DoneWithCurrent_PushFront(tree, queue, bGetSubdirectories) ==
    IF queue # <<>>
    THEN IF bGetSubdirectories
         THEN GetSubdirectories(tree, Head(queue)) \o Tail(queue)
         ELSE Tail(queue)
    ELSE queue

\* DirWalker::DoneWithCurrent
DoneWithCurrent(tree, queue, bGetSubdirectories) ==
    IF queue # <<>>
    THEN IF bGetSubdirectories
         THEN Tail(queue \o GetSubdirectories(tree, Head(queue)))
         ELSE Tail(queue)
    ELSE queue

\* what szRootDir can name: a directory, nothing (NULL or the empty string), a
\* path that does not exist, a reparse point or a file
RootKinds == {"directory", "empty", "invalid", "not a directory"}

InitWalk ==
    /\ \/ /\ dwRoot = "directory"
          /\ dwTree \in [dirs : DirTrees, order : ListingOrders]
       \/ /\ dwRoot \in RootKinds \ {"directory"}
          /\ dwTree \in [dirs : {{}}, order : ListingOrders]
    /\ m_dirsToProcess = <<>>
    /\ dwPc = "start"
    /\ sCurrDir = <<>>
    /\ dwRet = FALSE
    /\ dwProcessed = <<>>
    /\ dwProbes = 0
    /\ DocIdle
    /\ RCIdle
    /\ SWIdle
    /\ ExtIdle
    /\ GpIdle
    /\ CspIdle
    /\ LgIdle
    /\ DetIdle
    /\ ComIdle
    /\ ScanIdle
    /\ SaveIdle
    /\ CleanIdle

\* DirWalker::Initialize on a directory: the queue holds the root
InitializeWalker ==
    /\ dwPc = "start"
    /\ dwRoot = "directory"
    /\ m_dirsToProcess' = <<szRootDir>>
    /\ dwRet' = TRUE
    /\ dwPc' = "getCurrent"
    /\ UNCHANGED <<dwTree, dwRoot, sCurrDir, dwProcessed, dwProbes, notWalkVars>>

\* DirWalker::Initialize fails: the queue stays cleared, the loop is not entered
InitializeFails ==
    /\ dwPc = "start"
    /\ dwRoot # "directory"
    /\ m_dirsToProcess' = <<>>
    /\ dwRet' = FALSE
    /\ dwPc' = "ended"
    /\ UNCHANGED <<dwTree, dwRoot, sCurrDir, dwProcessed, dwProbes, notWalkVars>>

\* while (dirWalker.GetCurrent(sCurrDir))
CallGetCurrent ==
    /\ dwPc = "getCurrent"
    /\ dwRet' = GetCurrent(m_dirsToProcess).ret
    /\ sCurrDir' = GetCurrent(m_dirsToProcess).sCurrDir
    /\ dwPc' = IF GetCurrent(m_dirsToProcess).ret THEN "body" ELSE "ended"
    /\ UNCHANGED <<dwTree, dwRoot, m_dirsToProcess, dwProcessed, dwProbes, notWalkVars>>

\* the loop body processed sCurrDir: dirWalker.DoneWithCurrent()
CallDoneWithCurrent ==
    /\ dwPc = "body"
    /\ dwProcessed' = Append(dwProcessed, sCurrDir)
    /\ m_dirsToProcess' = DoneWithCurrent(dwTree, m_dirsToProcess, TRUE)
    /\ dwPc' = "getCurrent"
    /\ UNCHANGED <<dwTree, dwRoot, sCurrDir, dwRet, dwProbes, notWalkVars>>

MaxProbes == 2

\* after the loop: GetCurrent is called once more
GetCurrentAfterEnd ==
    /\ dwPc = "ended"
    /\ dwProbes < MaxProbes
    /\ dwProbes' = dwProbes + 1
    /\ dwRet' = GetCurrent(m_dirsToProcess).ret
    /\ sCurrDir' = GetCurrent(m_dirsToProcess).sCurrDir
    /\ UNCHANGED <<dwTree, dwRoot, m_dirsToProcess, dwPc, dwProcessed, notWalkVars>>

\* after the loop: DoneWithCurrent is called once more
DoneWithCurrentAfterEnd ==
    /\ dwPc = "ended"
    /\ dwProbes < MaxProbes
    /\ dwProbes' = dwProbes + 1
    /\ \E b \in BOOLEAN : m_dirsToProcess' = DoneWithCurrent(dwTree, m_dirsToProcess, b)
    /\ UNCHANGED <<dwTree, dwRoot, dwPc, sCurrDir, dwRet, dwProcessed, notWalkVars>>

NextWalk ==
    \/ InitializeWalker
    \/ InitializeFails
    \/ CallGetCurrent
    \/ CallDoneWithCurrent
    \/ GetCurrentAfterEnd
    \/ DoneWithCurrentAfterEnd

SpecWalk == InitWalk /\ [][NextWalk]_vars

\* the caller keeps running its loop
SpecWalkFair == SpecWalk /\ WF_vars(CallGetCurrent) /\ WF_vars(CallDoneWithCurrent)
                         /\ WF_vars(InitializeWalker) /\ WF_vars(InitializeFails)

----------------------------------------------------------------------------
(* AppLocker_EmergencyClean::DeleteAppLockerBinaryFiles *)

\* the characters of the names used below, in the order of their code units:
\* '!' < 'A' < '\' < 'a' < 'f'
CodeOrder == <<"!", "A", "\\", "a", "f">>
Code(c) == CHOOSE i \in 1..Len(CodeOrder) : CodeOrder[i] = c

\* a name is its characters; a path is the names from the AppLocker directory
\* down (the System32 prefix is common to all paths)
sRootDir == <<(<<"A">>)>>
SubdirNames == <<(<<"a">>), (<<"a", "!">>)>>
FileName == <<"f">>

\* the characters of a full path: the names joined with backslashes
RECURSIVE FullPath(_)
FullPath(path) ==
    IF Len(path) = 1 THEN path[1]
    ELSE FullPath(SubSeq(path, 1, Len(path) - 1)) \o <<"\\">> \o path[Len(path)]

\* std::less<std::wstring> on character sequences
RECURSIVE LessChars(_, _)
LessChars(s, t) ==
    IF t = <<>> THEN FALSE
    ELSE IF s = <<>> THEN TRUE
    ELSE IF Code(Head(s)) # Code(Head(t)) THEN Code(Head(s)) < Code(Head(t))
    ELSE LessChars(Tail(s), Tail(t))

\* the order of the std::set<std::wstring> directories
PathLess(p, q) == LessChars(FullPath(p), FullPath(q))

\* seeded fault: the set is walked forwards
ReverseBegin_Forward(dirSet) ==
    CHOOSE d \in dirSet : \A e \in dirSet \ {d} : PathLess(d, e)

\* directories.rbegin(), and each later position of the reverse iterator: the
\* greatest path of those not yet visited
ReverseBegin(dirSet) ==
    CHOOSE d \in dirSet : \A e \in dirSet \ {d} : PathLess(e, d)

\* the directory trees under the AppLocker directory: none, one or both
\* subdirectories, each with or without a subdirectory of its own
Below(path) == {Subdirectory(path, SubdirNames[i]) : i \in 1..Len(SubdirNames)}
CleanTrees ==
    {{sRootDir} \cup level1 \cup level2 :
        <<level1, level2>> \in
            {<<l1, l2>> \in (SUBSET Below(sRootDir)) \X
                            (SUBSET {Subdirectory(d, SubdirNames[1]) : d \in Below(sRootDir)}) :
                \A q \in l2 : SubSeq(q, 1, Len(q) - 1) \in l1}}

MaxFiles == 2

\* the file a directory may hold
FileIn(dir) == Subdirectory(dir, FileName)

\* what can go wrong, one thing per call: the AppLocker directory is missing, a
\* directory's files cannot be listed, a file or a directory cannot be deleted
CleanFaults(tree, files) ==
    {[kind |-> "none", path |-> <<>>], [kind |-> "no root", path |-> <<>>]}
    \cup [kind : {"GetFiles fails"}, path : tree]
    \cup [kind : {"file in use"}, path : files]
    \cup [kind : {"directory in use"}, path : tree \ {sRootDir}]

\* GetFiles(sCurrDir, files, false): the full paths of the files of the directory
GetFiles(files, fault, dir) ==
    IF fault = [kind |-> "GetFiles fails", path |-> dir]
    THEN [ret |-> FALSE, files |-> <<>>]
    ELSE [ret |-> TRUE,
          files |-> IF FileIn(dir) \in files THEN <<FileIn(dir)>> ELSE <<>>]

\* AddFSObjectToCollection: the entry pushed to the collection
FileInfo(sObjName, bIsDirectory) ==
    [bIsDirectory |-> bIsDirectory, sFullPath |-> sObjName]

\* the while loop of RecursiveFileList, entered with the walker's queue and the
\* collection so far
RECURSIVE ListLoop(_, _, _, _, _)
ListLoop(tree, files, fault, queue, collection) ==
    IF ~GetCurrent(queue).ret THEN collection
    ELSE LET dir   == GetCurrent(queue).sCurrDir
             found == GetFiles(files, fault, dir)
         IN  ListLoop(tree, files, fault, DoneWithCurrent(tree, queue, TRUE),
                      Append(collection, FileInfo(dir, TRUE))
                      \o [i \in 1..Len(found.files) |-> FileInfo(found.files[i], FALSE)])

\* RecursiveFileList(sDirectory, fileInfoCollection)
RecursiveFileList(tree, files, fault, sDirectory) ==
    IF fault.kind = "no root"
    THEN [ret |-> FALSE, collection |-> <<>>]
    ELSE [ret |-> TRUE,
          collection |-> ListLoop(tree, files, fault, <<sDirectory>>, <<>>)]

\* DeleteFileW succeeds unless the file is in use
DeleteFileW(left, fault, path) ==
    path \in left.files /\ fault # [kind |-> "file in use", path |-> path]

\* RemoveDirectoryW succeeds on a directory that is empty and not in use
RemoveDirectoryW(left, fault, path) ==
    /\ path \in left.dirs
    /\ fault # [kind |-> "directory in use", path |-> path]
    /\ \A q \in left.dirs \cup left.files :
          ~(Len(q) = Len(path) + 1 /\ SubSeq(q, 1, Len(path)) = path)

CouldNotDelete == "Could not delete the following:"

InitClean ==
    /\ ecTree \in [dirs : CleanTrees, order : {SubdirNames}]
    /\ ecFiles \in {F \in SUBSET {FileIn(d) : d \in ecTree.dirs} : Cardinality(F) <= MaxFiles}
    /\ ecFault \in CleanFaults(ecTree.dirs, ecFiles)
    /\ ecLeft = [dirs |-> ecTree.dirs, files |-> ecFiles]
    /\ ecPc = "start"
    /\ fileInfoCollection = <<>>
    /\ ixFileInfo = 0
    /\ directories = {}
    /\ bSuccess = FALSE
    /\ strErrorInfo = <<>>
    /\ sErrorInfo = <<>>
    /\ ecLog = <<>>
    /\ DocIdle
    /\ RCIdle
    /\ SWIdle
    /\ ExtIdle
    /\ GpIdle
    /\ CspIdle
    /\ LgIdle
    /\ DetIdle
    /\ ComIdle
    /\ ScanIdle
    /\ SaveIdle
    /\ WalkIdle

\* RecursiveFileList returns false: return bSuccess, which is false
ListingFails ==
    /\ ecPc = "start"
    /\ ~RecursiveFileList(ecTree, ecFiles, ecFault, sRootDir).ret
    /\ ecPc' = "done"
    /\ UNCHANGED <<ecTree, ecFiles, ecFault, ecLeft, fileInfoCollection, ixFileInfo,
                   directories, bSuccess, strErrorInfo, sErrorInfo, ecLog, notCleanVars>>

\* RecursiveFileList returns true: the header line is written, bSuccess = true
ListingDone ==
    /\ ecPc = "start"
    /\ RecursiveFileList(ecTree, ecFiles, ecFault, sRootDir).ret
    /\ fileInfoCollection' = RecursiveFileList(ecTree, ecFiles, ecFault, sRootDir).collection
    /\ strErrorInfo' = <<CouldNotDelete>>
    /\ bSuccess' = TRUE
    /\ ixFileInfo' = 0
    /\ ecPc' = "files"
    /\ UNCHANGED <<ecTree, ecFiles, ecFault, ecLeft, directories, sErrorInfo, ecLog,
                   notCleanVars>>

\* first loop, an entry that is a file: DeleteFileW
DeleteListedFile ==
    /\ ecPc = "files"
    /\ ixFileInfo < Len(fileInfoCollection)
    /\ ~fileInfoCollection[ixFileInfo + 1].bIsDirectory
    /\ LET path == fileInfoCollection[ixFileInfo + 1].sFullPath
           ok   == DeleteFileW(ecLeft, ecFault, path)
       IN  /\ ecLog' = Append(ecLog, [call |-> "DeleteFileW", path |-> path, ok |-> ok])
           /\ ecLeft' = IF ok THEN [ecLeft EXCEPT !.files = @ \ {path}] ELSE ecLeft
           /\ bSuccess' = IF ok THEN bSuccess ELSE FALSE
           /\ strErrorInfo' = IF ok THEN strErrorInfo ELSE Append(strErrorInfo, path)
    /\ ixFileInfo' = ixFileInfo + 1
    /\ UNCHANGED <<ecTree, ecFiles, ecFault, ecPc, fileInfoCollection, directories,
                   sErrorInfo, notCleanVars>>

\* first loop, an entry that is a directory: inserted in the set unless the root
NoteListedDirectory ==
    /\ ecPc = "files"
    /\ ixFileInfo < Len(fileInfoCollection)
    /\ fileInfoCollection[ixFileInfo + 1].bIsDirectory
    /\ directories' = IF sRootDir # fileInfoCollection[ixFileInfo + 1].sFullPath
                      THEN directories \cup {fileInfoCollection[ixFileInfo + 1].sFullPath}
                      ELSE directories
    /\ ixFileInfo' = ixFileInfo + 1
    /\ UNCHANGED <<ecTree, ecFiles, ecFault, ecLeft, ecPc, fileInfoCollection, bSuccess,
                   strErrorInfo, sErrorInfo, ecLog, notCleanVars>>

\* the first loop ends
FilesLoopEnds ==
    /\ ecPc = "files"
    /\ ~(ixFileInfo < Len(fileInfoCollection))
    /\ ecPc' = "directories"
    /\ UNCHANGED <<ecTree, ecFiles, ecFault, ecLeft, fileInfoCollection, ixFileInfo,
                   directories, bSuccess, strErrorInfo, sErrorInfo, ecLog, notCleanVars>>

\* second loop: RemoveDirectoryW on the reverse iterator's directory
RemoveListedDirectory ==
    /\ ecPc = "directories"
    /\ directories # {}
    /\ LET path == ReverseBegin(directories)
           ok   == RemoveDirectoryW(ecLeft, ecFault, path)
       IN  /\ ecLog' = Append(ecLog, [call |-> "RemoveDirectoryW", path |-> path, ok |-> ok])
           /\ ecLeft' = IF ok THEN [ecLeft EXCEPT !.dirs = @ \ {path}] ELSE ecLeft
           /\ bSuccess' = IF ok THEN bSuccess ELSE FALSE
           /\ strErrorInfo' = IF ok THEN strErrorInfo ELSE Append(strErrorInfo, path)
           /\ directories' = directories \ {path}
    /\ UNCHANGED <<ecTree, ecFiles, ecFault, ecPc, fileInfoCollection, ixFileInfo,
                   sErrorInfo, notCleanVars>>

\* the second loop ends: if (!bSuccess) sErrorInfo = strErrorInfo.str(); return
ReturnFromDelete ==
    /\ ecPc = "directories"
    /\ directories = {}
    /\ sErrorInfo' = IF ~bSuccess THEN strErrorInfo ELSE sErrorInfo
    /\ ecPc' = "done"
    /\ UNCHANGED <<ecTree, ecFiles, ecFault, ecLeft, fileInfoCollection, ixFileInfo,
                   directories, bSuccess, strErrorInfo, ecLog, notCleanVars>>

NextClean ==
    \/ ListingFails
    \/ ListingDone
    \/ DeleteListedFile
    \/ NoteListedDirectory
    \/ FilesLoopEnds
    \/ RemoveListedDirectory
    \/ ReturnFromDelete

SpecClean == InitClean /\ [][NextClean]_vars

----------------------------------------------------------------------------
(* Properties *)

\* every Save call made so far reported the sharing violation
AllSharingViolations ==
    \A i \in 1..Len(saveCalls) : saveCalls[i] = hrSharingViolation

\* C2: when every commit attempt reports the sharing violation, SaveWithRetries
\* returns after exactly 21 attempts and exactly 20 sleeps of 500 ms, one before
\* each retry and none after the last attempt, and returns the sharing violation.
C2_RetryBound ==
    /\ (swPc = "return" /\ AllSharingViolations) =>
            /\ Len(saveCalls) = 21
            /\ sleeps = 20
            /\ slept_ms = 20 * 500
            /\ hr = hrSharingViolation
    /\ (swPc \in {"loop", "return"} /\ AllSharingViolations) =>
            sleeps = Len(saveCalls) - 1
    /\ (swPc = "retrySave" /\ AllSharingViolations) =>
            sleeps = Len(saveCalls)

C2_Witness ==
    /\ swPc = "return"
    /\ AllSharingViolations
    /\ Len(saveCalls) = 21
    /\ sleeps = 20

\* C3: SaveWithRetries stops at the first attempt whose result is not the sharing
\* violation and returns that result: no attempt and no sleep follows it, a
\* non-transient first attempt ends the call after one attempt and no sleep, and
\* the value returned is always the result of the last attempt made.
C3_StopsAtFirstOther ==
    /\ \A i \in 1..(Len(saveCalls) - 1) : saveCalls[i] = hrSharingViolation
    /\ (Len(saveCalls) > 0 /\ saveCalls[Len(saveCalls)] # hrSharingViolation) =>
            /\ swPc = "return"
            /\ sleeps = Len(saveCalls) - 1
    /\ (Len(saveCalls) > 0 /\ saveCalls[1] # hrSharingViolation) =>
            /\ Len(saveCalls) = 1
            /\ sleeps = 0
    /\ swPc = "return" =>
            /\ Len(saveCalls) > 0
            /\ hr = saveCalls[Len(saveCalls)]

C3_Witness ==
    /\ swPc = "return"
    /\ Len(saveCalls) = 3
    /\ saveCalls[3] = "E_ACCESSDENIED"
    /\ hr = "E_ACCESSDENIED"
    /\ sleeps = 2

\* the input document of pass 1 was written with the root element
InputHasRoot ==
    pass = 1 /\ sPolicyXml = DocText(TRUE, policyParts)

AllWellFormed(parts) ==
    \A i \in 1..Len(parts) : parts[i] \in WellFormedRC

\* the positions of the rule collections of type t
OfType(parts, t) ==
    {i \in 1..Len(parts) : RCType(parts[i]) = t}

DistinctTypes(parts) ==
    \A t \in TypeNames : Cardinality(OfType(parts, t)) <= 1

\* the text of the only rule collection of type t, or nothing
OnlyOfType(parts, t) ==
    IF OfType(parts, t) = {} THEN <<>> ELSE RCText(parts[CHOOSE i \in OfType(parts, t) : TRUE])

RECURSIVE JoinOfType(_, _, _)
\* the texts of the rule collections of type t among parts[1..n], in order, separated
\* by line breaks
JoinOfType(parts, t, n) ==
    IF n = 0 THEN <<>>
    ELSE LET before == JoinOfType(parts, t, n - 1)
         IN  IF RCType(parts[n]) # t THEN before
             ELSE IF before = <<>> THEN RCText(parts[n])
             ELSE before \o sEndl \o RCText(parts[n])

\* C1: a document assembled from the fragments of an accepted document is accepted
\* too, and splitting and decoding it gives, for every type, the rule list (the
\* same identifiers, the same raw markup, the same order) that splitting and
\* decoding the original document gave.
C1_RoundTrip ==
    /\ (pass = 2 /\ pc \in {"split", "parsed"}) => splitRet
    /\ (pass = 2 /\ pc = "parsed") =>
            \A t \in TypeNames :
                /\ parsed[t].rules = first.parsed[t].rules
                /\ parsed[t].ret = first.parsed[t].ret

C1_Witness ==
    /\ pass = 2
    /\ pc = "parsed"
    /\ policyParts = <<"Appx", "ExeRules">>
    /\ Len(parsed["Exe"].rules) = 2
    /\ Len(parsed["Appx"].rules) = 1
    /\ sPolicyXml # DocText(TRUE, policyParts)

\* C5 (as claimed): whenever the split returns failure all five fragments are empty.
C5_SplitFailsClosed ==
    (pc = "split" /\ ~splitRet) => policies = EmptyPolicies

\* C7: in a document of well-formed rule collections of which exactly one is of type
\* Exe, written either as <RuleCollection Type="Exe" EnforcementMode="Enabled"/> or
\* with an explicit end tag and no children, the split succeeds, the Exe fragment is
\* exactly that rule collection whatever precedes or follows it, and the fragment
\* decodes to enforcement mode 1 (Enforce) with no rules.
C7_SelfClosingOrEndTag ==
    (/\ InputHasRoot
     /\ pc \in {"split", "parsed"}
     /\ AllWellFormed(policyParts)
     /\ Cardinality(OfType(policyParts, "Exe")) = 1
     /\ \E i \in OfType(policyParts, "Exe") : policyParts[i] \in {"ExeSelf", "ExeEmpty"})
    =>  /\ splitRet
        /\ policies.sExePolicy = OnlyOfType(policyParts, "Exe")
        /\ pc = "parsed" =>
                /\ parsed["Exe"].called
                /\ parsed["Exe"].ret
                /\ parsed["Exe"].dwEnforcementMode = 1
                /\ parsed["Exe"].rules = <<>>

C7_Witness ==
    /\ InputHasRoot
    /\ pc = "parsed"
    /\ policyParts = <<"ExeEmpty", "MsiNotConfigured">>
    /\ policies.sExePolicy = RCText("ExeEmpty")
    /\ parsed["Exe"].rules = <<>>

\* C8 (as claimed): a type that occurs more than once gets one fragment holding every
\* occurrence, in order, separated by line breaks.
C8_SameTypeAppends ==
    (/\ InputHasRoot
     /\ pc = "split"
     /\ AllWellFormed(policyParts))
    =>  \A t \in TypeNames :
            policies[PolicyField(t)] = JoinOfType(policyParts, t, Len(policyParts))

C10_RootMarker ==
    /\ (pc = "split" /\ npos = find(sPolicyXml, sAngle \o szPolicyRootTagname, 0))
       =>   /\ ~splitRet
            /\ policies = EmptyPolicies
    /\ (/\ pc = "split"
        /\ npos # find(sPolicyXml, sAngle \o szPolicyRootTagname, 0)
        /\ npos = find(sPolicyXml, sRuleCollectionStart, 0))
       =>   /\ splitRet
            /\ policies = EmptyPolicies

C10_Witness ==
    /\ pc = "split"
    /\ policyParts = <<"ExeRules", "Dll">>
    /\ npos = find(sPolicyXml, sAngle \o szPolicyRootTagname, 0)
    /\ npos # find(sPolicyXml, sRuleCollectionStart, 0)
    /\ ~splitRet
    /\ policies = EmptyPolicies

\* the rule elements of the input fragment that lack the Id attribute or one of its quotes
WithoutId ==
    {i \in 1..Len(rcParts.rules) : rcParts.rules[i] \in {"NoId", "NoQuote", "OneQuote"}}

\* the input fragment is Enabled or AuditOnly, has a rule element without a usable Id,
\* and all its other rule elements are well-formed
HasRuleWithoutId ==
    /\ rcParts.open \in {"Enabled", "AuditOnly"}
    /\ WithoutId # {}
    /\ \A i \in 1..Len(rcParts.rules) : i \in WithoutId \/ rcParts.rules[i] \in GoodRuleKinds

\* C4 (as claimed): a rule element without an Id attribute, or without one of the two
\* quotes around its value, makes ParseRuleCollection fail with an empty rule list.
C4_NoPartialRuleList ==
    (rcPc = "done" /\ HasRuleWithoutId) =>
        /\ ~rcOut.ret
        /\ rcOut.rules = <<>>

\* the part of C4 the code keeps: such a fragment makes ParseRuleCollection fail
C4_FailureReturned ==
    (rcPc = "done" /\ HasRuleWithoutId) => ~rcOut.ret

\* C6: a fragment whose opening element has EnforcementMode="NotConfigured" decodes
\* successfully to no rules and default extensions, whatever follows the opening
\* element: well-formed rules, malformed rules, a malformed or populated extensions
\* block.
C6_NotConfiguredCollapse ==
    (rcPc = "done" /\ rcParts.open = "NotConfigured") =>
        /\ rcOut.ret
        /\ rcOut.rules = <<>>
        /\ rcOut.extensions = DefaultExtensions

C6_Witness ==
    /\ rcPc = "done"
    /\ rcParts.open = "NotConfigured"
    /\ rcParts.rules = <<"Path", "NoId">>
    /\ rcParts.ext = "noEnd"
    /\ rcOut.ret
    /\ rcOut.rules = <<>>

----------------------------------------------------------------------------
(* Decoding of single rule collections *)

\* the Exe fragment is the only one the split has filled
OnlyExeFragment ==
    /\ policies.sExePolicy # <<>>
    /\ policies.sDllPolicy = <<>>
    /\ policies.sMsiPolicy = <<>>
    /\ policies.sScriptPolicy = <<>>
    /\ policies.sAppxPolicy = <<>>

\* C11 (as claimed): a document whose only rule collection is an enabled Exe
\* collection holding one self-closing FilePathRule splits into a non-empty Exe
\* fragment and four empty ones, and the Exe fragment decodes successfully to
\* exactly one rule with the identifier of that element.
C11_SelfClosingRuleParses ==
    (pc = "parsed" /\ pass = 1 /\ policyParts = <<"ExeSelfRule">>) =>
        /\ OnlyExeFragment
        /\ parsed["Exe"].ret
        /\ Len(parsed["Exe"].rules) = 1
        /\ parsed["Exe"].rules[1].sGuid = Guid(8)

\* The split half of C11 does hold: the fragment is captured whole.
C11_SplitHalf ==
    (pc = "parsed" /\ pass = 1 /\ policyParts = <<"ExeSelfRule">>) =>
        /\ OnlyExeFragment
        /\ policies.sExePolicy = RCText("ExeSelfRule")

\* what ParseRuleCollection reports for a fragment with the given opening element,
\* no rules and no extensions
ReportedFor(o) ==
    ParseRuleCollection(FragmentText([open |-> o, rules |-> <<>>, ext |-> "none"]),
                        FreshOutputs)

\* C12 (as claimed): the enforcement mode reported for a successfully parsed
\* NotConfigured fragment differs from the one reported for an AuditOnly fragment
\* and from the one reported for an Enabled fragment.
C12_TriState ==
    (rcPc = "done" /\ rcParts.open = "NotConfigured" /\ rcOut.ret) =>
        /\ rcOut.dwEnforcementMode # ReportedFor("AuditOnly").dwEnforcementMode
        /\ rcOut.dwEnforcementMode # ReportedFor("Enabled").dwEnforcementMode

\* What does hold: Enabled is told apart from the other two.
C12_EnabledDistinct ==
    (rcPc = "done" /\ rcParts.open \in {"NotConfigured", "AuditOnly"} /\ rcOut.ret) =>
        rcOut.dwEnforcementMode # ReportedFor("Enabled").dwEnforcementMode

\* the value of the EnforcementMode attribute in an opening element of the inputs
ModeValue(o) ==
    CASE o \in {"Enabled", "NoGT"} -> wEnabled
      [] o \in {"AuditOnly", "AuditOnlyNamed"} -> wAuditOnly
      [] o = "NotConfigured" -> wNotConfigured
      [] o = "Bogus" -> wBogus

Contains(s, word) ==
    npos # find(s, word, 0)

\* C13 (as claimed): no '>' or no EnforcementMode attribute is a failure; otherwise
\* the value of the EnforcementMode attribute alone decides: containing Enabled
\* gives 1, containing AuditOnly gives 0, containing none of NotConfigured, Enabled,
\* AuditOnly is a failure, whatever other attributes the opening element has.
C13_ModeFromAttributeValue ==
    rcPc = "done" =>
        /\ rcParts.open \in {"NoGT", "NoMode"} => ~rcOut.ret
        /\ (rcParts.open \notin {"NoGT", "NoMode", "NotConfigured"} /\ rcOut.ret) =>
              /\ Contains(ModeValue(rcParts.open), wEnabled) => rcOut.dwEnforcementMode = 1
              /\ Contains(ModeValue(rcParts.open), wAuditOnly) => rcOut.dwEnforcementMode = 0
        /\ (/\ rcParts.open \notin {"NoGT", "NoMode"}
            /\ ~Contains(ModeValue(rcParts.open), wNotConfigured)
            /\ ~Contains(ModeValue(rcParts.open), wEnabled)
            /\ ~Contains(ModeValue(rcParts.open), wAuditOnly)) => ~rcOut.ret

\* What does hold: the claim for opening elements in which EnforcementMode is the
\* last attribute.
C13_ModeLastAttribute ==
    (rcPc = "done" /\ rcParts.open # "AuditOnlyNamed") => C13_ModeFromAttributeValue

\* every rule element of the input fragment is well-formed, with its own end tag
AllGoodRules ==
    \A i \in 1..Len(rcParts.rules) : rcParts.rules[i] \in GoodRuleKinds

RECURSIVE RulesOfKind(_, _, _)
\* the rule elements of kind k among kinds[1..n], in document order
RulesOfKind(kinds, k, n) ==
    IF n = 0 THEN <<>>
    ELSE LET before == RulesOfKind(kinds, k, n - 1)
         IN  IF kinds[n] = k
                 THEN Append(before, [sGuid |-> Guid(n), sXml |-> RuleText(k, n)])
                 ELSE before

\* C14: after a successful ParseRuleCollection the rule list holds the FilePathRule
\* elements of the fragment, then its FilePublisherRule elements, then its
\* FileHashRule elements, each group in document order, each element exactly once.
C14_GroupedRuleOrder ==
    (rcPc = "done" /\ rcOut.ret /\ rcParts.open # "NotConfigured" /\ AllGoodRules) =>
        rcOut.rules = RulesOfKind(rcParts.rules, "Path", Len(rcParts.rules))
                        \o RulesOfKind(rcParts.rules, "Publisher", Len(rcParts.rules))
                        \o RulesOfKind(rcParts.rules, "Hash", Len(rcParts.rules))

C14_Witness ==
    /\ rcPc = "done"
    /\ rcOut.ret
    /\ rcParts.rules = <<"Publisher", "Path">>
    /\ rcParts.ext = "full"
    /\ Len(rcOut.rules) = 2
    /\ rcOut.rules[1].sGuid = Guid(2)
    /\ rcOut.rules[2].sGuid = Guid(1)

\* C15 (as claimed): every rule a successful ParseRuleCollection returns has the
\* text of one rule element of the fragment, from its start tag through the '>' of
\* its own end tag, and the value of that element's own Id attribute as identifier.
C15_RuleMarkupAndId ==
    (rcPc = "done" /\ rcOut.ret /\ rcParts.open # "NotConfigured") =>
        \A j \in 1..Len(rcOut.rules) :
            \E i \in 1..Len(rcParts.rules) :
                /\ rcParts.rules[i] \in GoodRuleKinds \cup OddRuleKinds
                /\ rcOut.rules[j].sXml = RuleText(rcParts.rules[i], i)
                /\ rcOut.rules[j].sGuid = Guid(i)

\* The markup half of C15 for rule elements that all have their own end tag: the
\* text is that of one rule element.
C15_MarkupOfOneElement ==
    (/\ rcPc = "done"
     /\ rcOut.ret
     /\ rcParts.open # "NotConfigured"
     /\ \A i \in 1..Len(rcParts.rules) : rcParts.rules[i] \in GoodRuleKinds \cup OddRuleKinds) =>
        \A j \in 1..Len(rcOut.rules) :
            \E i \in 1..Len(rcParts.rules) : rcOut.rules[j].sXml = RuleText(rcParts.rules[i], i)

----------------------------------------------------------------------------
(* The extensions block *)

\* the opening element and the rule elements of the input fragment are such that
\* ParseRuleCollection gets as far as ParseExtensions
ReachesExtensions ==
    /\ rcParts.open \in {"Enabled", "AuditOnly", "AuditOnlyNamed"}
    /\ AllGoodRules

\* C16: without a "<RuleCollectionExtensions" start marker the extensions are the
\* defaults and the parse succeeds; with the start marker and no
\* "</RuleCollectionExtensions" after it ParseExtensions fails, and with it
\* ParseRuleCollection.
C16_ExtensionsOptionalButClosed ==
    (rcPc = "done" /\ ReachesExtensions) =>
        /\ rcParts.ext = "none" =>
              /\ rcOut.ret
              /\ rcOut.extensions = DefaultExtensions
              /\ ParseExtensions(sRuleCollectionXml, StaleOutputs.extensions) =
                    [ret |-> TRUE, extensions |-> DefaultExtensions]
        /\ rcParts.ext = "noEnd" =>
              /\ ~rcOut.ret
              /\ ~ParseExtensions(sRuleCollectionXml, DefaultExtensions).ret

C16_Witness ==
    /\ rcPc = "done"
    /\ rcParts.open = "Enabled"
    /\ rcParts.rules = <<"Path">>
    /\ rcParts.ext = "noEnd"
    /\ ~rcOut.ret
    /\ Len(rcOut.rules) = 1

MissingQuoteKinds == {"NoOpenQuote", "NoCloseQuote", "NoQuotes"}

\* the services settings a kind of Services element stands for
ServicesSetting(k) ==
    CASE k = "Enabled" -> [present |-> TRUE, mode |-> 1]
      [] k = "ServicesOnly" -> [present |-> TRUE, mode |-> 2]
      [] OTHER -> [present |-> FALSE, mode |-> 0]

\* C17: in a block with both inner elements, a quoted value that is not one of the
\* recognised ones leaves the setting at its default and the parse succeeds; a
\* missing opening or closing double quote after EnforcementMode or Allow makes
\* it fail; Enabled gives (present, 1), ServicesOnly (present, 2), NotConfigured
\* (not present, 0); Allow Enabled gives 1, NotEnabled 0.
C17_ExtensionValues ==
    (extPc = "done" /\ extParts.shape = "both") =>
        /\ extOut.ret <=> (/\ extParts.services \notin MissingQuoteKinds
                           /\ extParts.allow \notin MissingQuoteKinds)
        /\ extOut.ret =>
              /\ extOut.extensions.bServicesModePresent =
                    ServicesSetting(extParts.services).present
              /\ extOut.extensions.dwServiceEnforcementMode =
                    ServicesSetting(extParts.services).mode
              /\ extOut.extensions.dwAllowWindows =
                    (IF extParts.allow = "Enabled" THEN 1 ELSE 0)

C17_Witness ==
    /\ extPc = "done"
    /\ extParts = [shape |-> "both", services |-> "ServicesOnly", allow |-> "Bogus"]
    /\ extOut.ret
    /\ extOut.extensions =
          [bServicesModePresent |-> TRUE, dwServiceEnforcementMode |-> 2, dwAllowWindows |-> 0]

\* the Services element, or the SystemApps element, is not in the block
ServicesAbsent ==
    extParts.shape \in {"onlyRedstone", "neither"} \/ extParts.services = "absent"

AllowAbsent ==
    extParts.shape \in {"onlyThreshold", "neither"} \/ extParts.allow = "absent"

\* the element that is in the block is written with both quotes
PresentPartsQuoted ==
    /\ ServicesAbsent \/ extParts.services \notin MissingQuoteKinds
    /\ AllowAbsent \/ extParts.allow \notin MissingQuoteKinds

\* each absent element's setting is at its default
AbsentAtDefault ==
    /\ ServicesAbsent => /\ ~extOut.extensions.bServicesModePresent
                         /\ extOut.extensions.dwServiceEnforcementMode = 0
    /\ AllowAbsent => extOut.extensions.dwAllowWindows = 0

\* C18 (as claimed): a closed extensions block with only one of the services
\* section and the system-apps section, or neither, parses successfully with the
\* setting of each absent section at its default.
C18_SectionsOptional ==
    (/\ extPc = "done"
     /\ extParts.shape \notin {"thresholdNoEnd", "redstoneNoEnd"}
     /\ ServicesAbsent \/ AllowAbsent
     /\ PresentPartsQuoted) =>
        /\ extOut.ret
        /\ AbsentAtDefault

\* C18 (amended): the ThresholdExtensions and RedstoneExtensions elements must both
\* be in the block, each with its end element, or the parse fails; inside them
\* the Services and SystemApps elements are independently optional, an absent
\* one leaving its setting at the default.
C18_ChildrenOptional ==
    extPc = "done" =>
        /\ extParts.shape # "both" => ~extOut.ret
        /\ (extParts.shape = "both" /\ (ServicesAbsent \/ AllowAbsent) /\ PresentPartsQuoted) =>
              /\ extOut.ret
              /\ AbsentAtDefault

C18_Witness ==
    /\ extPc = "done"
    /\ extParts = [shape |-> "both", services |-> "absent", allow |-> "Enabled"]
    /\ extOut.ret
    /\ extOut.extensions =
          [bServicesModePresent |-> FALSE, dwServiceEnforcementMode |-> 0, dwAllowWindows |-> 1]

----------------------------------------------------------------------------
(* The document read from the registry replica *)

\* the positions at which pat occurs in s
Positions(s, pat) ==
    {i \in 0..(Len(s) - Len(pat)) : MatchAt(s, pat, i)}

\* the types that have a subkey in the replica
StoredTypes ==
    {t \in TypeNames : gpStore[t] # "absent"}

\* the start of a RuleCollection element of type t: <RuleCollection Type="t"
ElementStart(t) ==
    sRuleCollectionStart \o wType \o EQ \o DQ \o KeyNameText(t) \o DQ

\* the first two lines of every document
DocumentHead ==
    sXmlDeclaration \o sEndl \o sAngle \o szPolicyRootTagname \o sVersion1 \o sEndl

DocumentTail ==
    sAngleSlash \o szPolicyRootTagname \o GT

\* the elements of the stored types come in the order of RuleCollectionTypes;
\* at[t] is the set of positions at which an element of type t starts
InTypeOrder(at) ==
    \A i, j \in 1..Len(RuleCollectionTypes) :
        i < j => \A a \in at[RuleCollectionTypes[i]], b \in at[RuleCollectionTypes[j]] : a < b

\* every "<RuleCollection " is followed by a "</RuleCollection>" that comes before
\* the next "<RuleCollection "
EveryElementClosed(starts, ends) ==
    \A i \in starts :
        \E e \in ends : e > i /\ \A j \in starts : j > i => e < j

\* the document has the root marker, and the three characters after Type=" of
\* every element are a discriminator the splitter knows
AcceptedBySplitter(doc, starts) ==
    /\ HasPolicyRoot(doc)
    /\ \A i \in starts :
          /\ MatchAt(doc, wType \o EQ \o DQ, i + Len(sRuleCollectionStart))
          /\ KnownType(substr(doc, i + Len(sRuleCollectionStart) + Len(wType) + 2, 3))

\* the starts among a set of element starts that are of type t
StartsOfType(doc, starts, t) ==
    {i \in starts : MatchAt(doc, ElementStart(t), i)}

\* the shape of a document read from the replica: starts and ends are the positions
\* of "<RuleCollection " and "</RuleCollection>", at[t] the starts of type t
DocumentShape(doc, starts, ends, at) ==
    /\ MatchAt(doc, DocumentHead, 0)
    /\ MatchAt(doc, DocumentTail, Len(doc) - Len(DocumentTail))
    /\ \A t \in TypeNames : Cardinality(at[t]) = (IF t \in StoredTypes THEN 1 ELSE 0)
    /\ Cardinality(starts) = Cardinality(StoredTypes)
    /\ Cardinality(ends) = Cardinality(StoredTypes)
    /\ StoredTypes = {} => doc = DocumentHead \o DocumentTail
    /\ StoredTypes # {} => \E i \in starts : i = Len(DocumentHead)
    /\ InTypeOrder(at)
    /\ EveryElementClosed(starts, ends)
    /\ AcceptedBySplitter(doc, starts)

\* C19: GetPolicy always succeeds; its document is the XML declaration line, the
\* root start line, one RuleCollection element with an explicit end tag for each
\* type that has a subkey, in the order Exe, Dll, Msi, Script, Appx, nothing for
\* the other types, and the root end tag; it has the root marker and only type
\* discriminators the splitter knows.
C19_GetPolicyDocument ==
    gpPc = "done" =>
        /\ gpOut.ret
        /\ LET starts == Positions(gpOut.sAppLockerPolicyXml, sRuleCollectionStart)
               ends == Positions(gpOut.sAppLockerPolicyXml, sEndRuleCollection)
           IN  DocumentShape(gpOut.sAppLockerPolicyXml, starts, ends,
                   [t \in TypeNames |-> StartsOfType(gpOut.sAppLockerPolicyXml, starts, t)])

C19_Witness ==
    /\ gpPc = "done"
    /\ gpOut.ret
    /\ gpStore["Exe"] = "odd"
    /\ gpStore["Dll"] = "absent"
    /\ gpStore["Msi"] = "bare"
    /\ gpStore["Script"] = "enabled"
    /\ gpStore["Appx"] = "audit"
    /\ Cardinality(Positions(gpOut.sAppLockerPolicyXml, sRuleCollectionStart)) = 4

----------------------------------------------------------------------------
(* GetPolicies: one policy per group name *)

RECURSIVE Retrieved(_, _)
\* the instances of the classes of types[1..n], in retrieval order
Retrieved(store, n) ==
    IF n = 0 THEN <<>>
    ELSE Retrieved(store, n - 1) \o store[RuleCollectionTypes[n]]

\* an instance carries a group name and a markup when both properties are strings
Carries(o) ==
    /\ o.ParentID.vt = "VT_BSTR"
    /\ o.Policy.vt = "VT_BSTR"

\* the text after the last '/' of s; all of s when it has none
AfterLastSlash(s) ==
    LET at == {i \in 1..Len(s) : s[i] = "/"}
    IN  IF at = {} THEN s
        ELSE SubSeq(s, 1 + (CHOOSE i \in at : \A j \in at : j <= i), Len(s))

GroupNameOf(o) == AfterLastSlash(o.ParentID.bstrVal)

RECURSIVE MarkupLines(_, _, _)
\* the markups of the instances of group g among os[1..n], each followed by a line
\* break, in the order of os
MarkupLines(os, n, g) ==
    IF n = 0 THEN <<>>
    ELSE IF Carries(os[n]) /\ GroupNameOf(os[n]) = g
        THEN MarkupLines(os, n - 1, g) \o os[n].Policy.bstrVal \o sEndl
    ELSE MarkupLines(os, n - 1, g)

GroupNamesOf(os) ==
    {GroupNameOf(os[i]) : i \in {j \in 1..Len(os) : Carries(os[j])}}

PoliciesByGroup(os, found) ==
    /\ DOMAIN found = GroupNamesOf(os)
    /\ \A g \in DOMAIN found : found[g] = MarkupLines(os, Len(os), g)

\* C20: GetPolicies returns exactly one policy per distinct group name of the
\* instances that carry a group name and a markup, and the policy's text is the
\* markups of that group's instances, each followed by a line break, in retrieval
\* order (classes Exe, Dll, Msi, Script, Appx, each in enumeration order): nothing
\* is lost, duplicated or put under another name, and a later instance appends.
C20_OnePolicyPerGroup ==
    (cspPc = "done" /\ cspOut.ret) =>
        PoliciesByGroup(Retrieved(cspInstances, Len(RuleCollectionTypes)), cspOut.policies)

\* three groups; group GA has two instances of one class and one of a later class
C20_Witness ==
    /\ cspPc = "done"
    /\ cspOut.ret
    /\ Len(cspInstances["Exe"]) = 3
    /\ Len(cspInstances["Dll"]) = 2
    /\ Len(cspInstances["Msi"]) = 3
    /\ DOMAIN cspOut.policies = {wGroupA, wGroupB, <<>>}
    /\ cspOut.policies[wGroupA] =
           Markup("Exe", 1) \o sEndl \o Markup("Exe", 3) \o sEndl
               \o Markup("Dll", 2) \o sEndl

----------------------------------------------------------------------------
(* ApplyRuleCollection: what a rule collection's subkey holds *)

\* the subkey holds the mode, the AllowWindows number, and one subkey per rule,
\* named by the rule's identifier, whose only value is the rule's markup
SubkeyHolds(key, dwEnforcementMode, dwAllowWindows, rules) ==
    /\ key.present
    /\ DOMAIN key.values = {"EnforcementMode", "AllowWindows"}
    /\ key.values["EnforcementMode"] = dwEnforcementMode
    /\ key.values["AllowWindows"] = dwAllowWindows
    /\ DOMAIN key.rules = {rules[i].sGuid : i \in 1..Len(rules)}
    /\ \A i \in 1..Len(rules) :
          /\ DOMAIN key.rules[rules[i].sGuid] = {"Value"}
          /\ key.rules[rules[i].sGuid]["Value"] = rules[i].sXml

\* the types whose ApplyRuleCollection call has returned true
AppliedTypes ==
    {RuleCollectionTypes[n] : n \in 1..(lgOut.next - 1)}

\* C21: after ApplyRuleCollection succeeds on a non-empty fragment of type T, T's
\* subkey holds EnforcementMode equal to the parsed mode, AllowWindows equal to
\* the parsed "allow Windows system apps" setting, and one subkey per parsed rule
\* holding the rule's markup as its value Value; an empty fragment creates no
\* subkey and writes nothing.
C21_SubkeyOfFragment ==
    lgPc = "apply" =>
        \A t \in AppliedTypes :
            IF Len(lgOut.policies[PolicyField(t)]) = 0 THEN lgWork.keys[t] = NoKey
            ELSE LET p == ParseRuleCollection(lgOut.policies[PolicyField(t)], FreshOutputs)
                 IN  SubkeyHolds(lgWork.keys[t], p.dwEnforcementMode,
                                 p.extensions.dwAllowWindows, p.rules)

----------------------------------------------------------------------------
(* SetPolicyFromString: nothing of the previous policy remains *)

\* the rule identifiers ParseRuleCollection finds in a fragment
RuleIdsOf(p) == {p.rules[i].sGuid : i \in 1..Len(p.rules)}

\* the saved subkey of a type holds what the fragment defines and nothing else:
\* no subkey for an empty fragment; otherwise the two numeric values, the parsed
\* mode, and exactly the fragment's rules, each with its markup
DefinedByFragment(key, sFragment, p) ==
    IF Len(sFragment) = 0 THEN key = NoKey
    ELSE /\ key.present
         /\ DOMAIN key.values = {"EnforcementMode", "AllowWindows"}
         /\ key.values["EnforcementMode"] = p.dwEnforcementMode
         /\ DOMAIN key.rules = RuleIdsOf(p)
         /\ \A i \in 1..Len(p.rules) :
               key.rules[p.rules[i].sGuid] = SetValue(<<>>, "Value", p.rules[i].sXml)

\* C22: after SetPolicyFromString returns success the saved AppLocker subtree is
\* what the input document defines, whatever was saved before: a type subkey only
\* for a type with a non-empty fragment, rule subkeys only for that fragment's
\* rules, and no key or value of the previous policy.
C22_NoRemnants ==
    (lgPc = "done" /\ lgRet) =>
        /\ lgSaved.present <=> (\E t \in TypeNames : lgSaved.keys[t].present)
        /\ \A t \in TypeNames :
              DefinedByFragment(lgSaved.keys[t], lgOut.policies[PolicyField(t)],
                  ParseFragment(lgOut.policies[PolicyField(t)]))

\* success over a previous policy with Exe, Msi and Script subkeys, by a document
\* with Exe, Dll and Appx collections whose Exe rule G1 was there with another value
C22_Witness ==
    /\ lgPc = "done"
    /\ lgRet
    /\ lgPrior = PriorTree("old")
    /\ lgDoc = "full"
    /\ ~lgSaved.keys["Msi"].present
    /\ ~lgSaved.keys["Script"].present
    /\ DOMAIN lgSaved.keys["Exe"].rules = {Guid(1), Guid(2)}
    /\ lgSaved.keys["Exe"].rules[Guid(1)] # OldRuleKey

----------------------------------------------------------------------------
(* Parsing has no hidden state *)

\* what a call on the text gives with freshly declared output parameters
FreshCall(kind, text) ==
    ParserCall(kind, text,
               IF kind = "fragment" THEN FreshOutputs
               ELSE [ret |-> FALSE, out |-> EmptyPolicies])

\* C23: two calls of ParseRuleCollection, or of ParseRuleCollections, on the same
\* text give the same return value and the same outputs (mode, extensions, rules;
\* fragments), whatever call was made before and whatever the output parameters
\* held before the call.
C23_SameResultEveryCall ==
    /\ detPc = "second" => detOut = detFirst
    /\ detPc \in {"first", "second"} => detOut = FreshCall(detKind, detText)

\* a fragment parsed into rules, parsed again after a call on another fragment
\* that left other rules in the same output parameters, which were not fresh
\* to begin with
C23_Witness ==
    /\ detPc = "second"
    /\ detKind = "fragment"
    /\ detPrior = StaleOutputs
    /\ detCalls = <<detText, detOther, detText>>
    /\ detOut.ret
    /\ detOut.rules # <<>>
    /\ FreshCall(detKind, detOther).rules # <<>>
    /\ FreshCall(detKind, detOther).rules # detOut.rules

----------------------------------------------------------------------------
(* COM initialization is balanced *)

\* how many entries of the log are e
CountOf(log, e) == Cardinality({i \in 1..Len(log) : log[i] = e})

\* C24: over the lifetime of an AppLockerPolicy_CSP object and of a LocalGPO
\* object, CoUninitialize is called exactly once for each successful
\* CoInitializeEx call and never for one that failed, whichever initialization
\* step succeeds or fails.
C24_ComBalanced ==
    comPc = "destroyed" =>
        CountOf(comLog, "CoUninitialize") = CountOf(comLog, "CoInitializeEx succeeded")

----------------------------------------------------------------------------
(* The scanning loops terminate *)

\* the last pass captured a span: it starts at or after the cursor the pass began
\* with, is not empty, and the cursor now stands at its end
CapturedAndAdvanced ==
    /\ scanSt.span[1] >= scanPrev
    /\ scanSt.span[2] > scanSt.span[1]
    /\ Cursor(scanKind, scanSt) = scanSt.span[2]
    /\ Cursor(scanKind, scanSt) > scanPrev
    /\ scanSt.span[2] <= Len(scanText)

\* each captured span starts at or after the end of the one captured before it
SpansInOrder ==
    \A i \in 1..(Len(scanSpans) - 1) : scanSpans[i][2] <= scanSpans[i + 1][1]

\* a pass was made and captured nothing: the loop is over
NothingCapturedAndOver ==
    (scanSpans # <<>> \/ Cursor(scanKind, scanSt) # 0 \/ scanPc = "done")
        => ~LoopGoesOn(scanKind, scanSt)

\* what is left to scan bounds the passes still to come: the cursor of a loop
\* that goes on is inside the text, and no more spans were captured than the
\* text has characters
PassesBounded ==
    /\ LoopGoesOn(scanKind, scanSt) => Cursor(scanKind, scanSt) \in 0..Len(scanText)
    /\ Len(scanSpans) <= Len(scanText)

\* C25: for every input text the scanning loops of ParseRuleCollections and of
\* ParseRules terminate: a pass that captures a span moves the cursor strictly
\* forward to the end of that span, every other pass ends the loop, and the
\* captured spans never overlap, each starting at or after the end of the one
\* before.
C25_ScanTerminates ==
    scanPc \in {"loop", "done"} =>
        /\ IF scanSt.span # <<>> THEN CapturedAndAdvanced ELSE NothingCapturedAndOver
        /\ SpansInOrder
        /\ PassesBounded

\* a loop left after two captures with text between them
C25_Witness ==
    /\ scanPc = "done"
    /\ Len(scanSpans) = 2
    /\ scanSpans[1][2] < scanSpans[2][1]
    /\ scanSt.span = <<>>

----------------------------------------------------------------------------
(* SetPolicyFromString: the old policy is gone before the new one is read *)

\* the positions of a step in the trace
StepsAt(step) == {i \in 1..Len(lgTrace) : lgTrace[i] = step}

\* the document was split only after the tree was deleted and, if there was one
\* to delete, the deletion was saved: from the split until the new policy is
\* saved, the saved local GPO holds no AppLocker policy
ClearedBeforeParsed ==
    \A i \in StepsAt("ParseRuleCollections") :
        /\ \E j \in StepsAt("RegDeleteTree") : j < i
        /\ lgPrior.present => \E k \in StepsAt("Save") : k < i
        /\ lgTrace[Len(lgTrace)] # "Save" => lgSaved = NoTree

\* the call ended at the split, which rejected the document
RejectedBySplit ==
    /\ lgPc = "done"
    /\ lgTrace # <<>>
    /\ lgTrace[Len(lgTrace)] = "ParseRuleCollections"

\* C26: SetPolicyFromString deletes the AppLocker subtree and saves that deletion
\* (ClearPolicy with its Save) before it parses the new document; when the split
\* rejects the document the call returns failure with the previous policy
\* already removed from the saved local GPO, not left unchanged.
C26_ClearedBeforeParse ==
    /\ ClearedBeforeParsed
    /\ RejectedBySplit => (~lgRet /\ lgSaved = NoTree)

\* a rejected document, and the policy saved before the call is gone
C26_Witness ==
    /\ RejectedBySplit
    /\ ~lgRet
    /\ lgDoc = "rejected"
    /\ lgPrior = PriorTree("old")
    /\ lgSaved = NoTree

----------------------------------------------------------------------------
(* SetPolicyFromString: applied in order, saved only when all were applied *)

\* the types whose ApplyRuleCollection call was made, in the order of the calls
AppliedInTrace == SelectSeq(lgTrace, LAMBDA e : e \in TypeNames)

\* the Save of the new policy was called: a Save after the split
NewPolicySaveCalled ==
    \E i \in StepsAt("ParseRuleCollections") : \E k \in StepsAt("Save") : i < k

\* the ApplyRuleCollection call for the n-th type had to fail: its fragment does
\* not parse, or the failing registry write is among those made up to that call
MustFail(n) ==
    \/ ~ParseFragment(lgOut.policies[PolicyField(RuleCollectionTypes[n])]).ret
    \/ (n = Len(AppliedInTrace) /\ FailAt(lgFault) \in 1..lgOut.calls)

\* C27: the five types are applied in the order Exe, Dll, Msi, Script, Appx and
\* the calls stop at the first ApplyRuleCollection that fails; the Save of the
\* new policy is called only after all five succeeded.  After a failed apply no
\* later type is written and the partly written policy is never saved.
C27_OrderedApplyThenSave ==
    /\ AppliedInTrace = SubSeq(RuleCollectionTypes, 1, Len(AppliedInTrace))
    /\ NewPolicySaveCalled =>
          /\ AppliedInTrace = RuleCollectionTypes
          /\ \A n \in 1..Len(RuleCollectionTypes) : ~MustFail(n)
    /\ \A n \in 1..Len(AppliedInTrace) :
          MustFail(n) =>
              /\ Len(AppliedInTrace) = n
              /\ lgPc = "done" /\ ~lgRet
              /\ ~NewPolicySaveCalled
              /\ lgSaved = NoTree
              /\ \A m \in (n + 1)..Len(RuleCollectionTypes) :
                    lgWork.keys[RuleCollectionTypes[m]] = NoKey

\* Exe and Dll were written, the Script fragment did not parse: Appx is not
\* written and nothing is saved
C27_Witness ==
    /\ lgPc = "done"
    /\ ~lgRet
    /\ lgDoc = "badRule"
    /\ AppliedInTrace = <<"Exe", "Dll", "Msi", "Script">>
    /\ lgWork.keys["Exe"].present
    /\ lgWork.keys["Dll"].present
    /\ ~lgWork.keys["Appx"].present
    /\ lgOut.policies[PolicyField("Appx")] # <<>>
    /\ lgSaved = NoTree

----------------------------------------------------------------------------
(* LocalGPO::Save *)

\* the number of commit attempts a SaveWithRetries call makes on its own: one
\* more than the sharing violations it meets, and never more than 1 + retries
OwnAttempts(script) ==
    IF script.sharing + 1 <= retries + 1 THEN script.sharing + 1 ELSE retries + 1

\* a logged SaveWithRetries call ran by itself: neither its attempts nor its
\* result depend on the other call
RanOnItsOwn(call) ==
    /\ call.attempts = OwnAttempts(call.script)
    /\ call.hr = IF call.script.sharing > retries
                 THEN hrSharingViolation ELSE call.script.final

\* C28: Save commits the machine policy and then the user policy, each in its
\* own SaveWithRetries call with its own 20 retries, the user commit also after
\* a failed machine commit; it returns the machine result when that is a
\* failure, otherwise the user result; without the policy interface it returns
\* E_POINTER and no commit is attempted.
C28_SaveBothThenReport ==
    /\ ~m_pLGPO => /\ svLog = <<>>
                   /\ svPc = "done" => svRet = "E_POINTER"
    /\ Len(svLog) >= 1 => svLog[1].bComputer
    /\ Len(svLog) >= 2 => ~svLog[2].bComputer
    /\ \A i \in 1..Len(svLog) : RanOnItsOwn(svLog[i])
    /\ (m_pLGPO /\ svPc = "done") =>
          /\ Len(svLog) = 2
          /\ svRet = IF svLog[1].hr \notin {"S_OK", "S_FALSE"}
                     THEN svLog[1].hr ELSE svLog[2].hr

\* the machine commit used up its retries and failed, the user commit was still
\* made, met sharing violations of its own, and succeeded: Save reports failure
C28_Witness ==
    /\ svPc = "done"
    /\ m_pLGPO
    /\ Len(svLog) = 2
    /\ svLog[1].attempts = retries + 1
    /\ svLog[1].hr = hrSharingViolation
    /\ svLog[2].attempts = retries + 1
    /\ svLog[2].hr = "S_OK"
    /\ svRet = hrSharingViolation

----------------------------------------------------------------------------
(* DirWalker *)

\* the directories of the tree level by level: the given level, then the
\* existing subdirectories of its directories in the order they are listed
RECURSIVE BreadthFirst(_, _)
BreadthFirst(tree, level) ==
    IF level = <<>> THEN <<>>
    ELSE level \o BreadthFirst(tree,
             SelectSeq([i \in 1..(Len(level) * Len(tree.order)) |->
                           Subdirectory(level[((i - 1) \div Len(tree.order)) + 1],
                                        tree.order[((i - 1) % Len(tree.order)) + 1])],
                       LAMBDA d : d \in tree.dirs))

\* the level-by-level order of the directories of the tree
BreadthFirstOrder(tree) == BreadthFirst(tree, <<szRootDir>>)

\* the loop has processed a prefix of the breadth-first order, each directory
\* once, and the queue holds directories that come later in that order
WalkInOrder ==
    /\ dwProcessed = SubSeq(BreadthFirstOrder(dwTree), 1, Len(dwProcessed))
    /\ \A i, k \in 1..Len(dwProcessed) : i # k => dwProcessed[i] # dwProcessed[k]
    /\ dwPc = "body" => sCurrDir = BreadthFirstOrder(dwTree)[Len(dwProcessed) + 1]
    /\ (dwRoot = "directory" /\ dwPc = "ended") => dwProcessed = BreadthFirstOrder(dwTree)

\* the current directory is the front of the queue; DoneWithCurrent appends its
\* subdirectories to the back and then removes the front
FrontAndBack ==
    [][CallDoneWithCurrent =>
          /\ sCurrDir = Head(m_dirsToProcess)
          /\ m_dirsToProcess' =
                Tail(m_dirsToProcess) \o GetSubdirectories(dwTree, sCurrDir)]_vars

\* GetCurrent leaves the queue alone; DoneWithCurrent leaves an empty queue alone
QueueUntouched ==
    [][/\ (CallGetCurrent \/ GetCurrentAfterEnd) => m_dirsToProcess' = m_dirsToProcess
       /\ (DoneWithCurrentAfterEnd /\ m_dirsToProcess = <<>>) => m_dirsToProcess' = <<>>]_vars

\* GetCurrent returns false exactly when Done() is true
ReportsDone ==
    [][(CallGetCurrent \/ GetCurrentAfterEnd) => (dwRet' = ~Done(m_dirsToProcess))]_vars

----------------------------------------------------------------------------
(* AppLocker_EmergencyClean::DeleteAppLockerBinaryFiles *)

\* the calls of one kind in the log, as positions
CallsOf(call) == {i \in 1..Len(ecLog) : ecLog[i].call = call}

\* the listed paths of one kind
Listed(bIsDirectory) ==
    {fileInfoCollection[i].sFullPath :
        i \in {k \in 1..Len(fileInfoCollection) :
                  fileInfoCollection[k].bIsDirectory = bIsDirectory}}

\* q lies somewhere below the directory p
IsBelow(q, p) == Len(p) < Len(q) /\ SubSeq(q, 1, Len(p)) = p

\* the root is never removed, and every file deletion comes before every removal
FilesThenDirectories ==
    /\ \A i \in CallsOf("RemoveDirectoryW") : ecLog[i].path # sRootDir
    /\ \A i \in CallsOf("RemoveDirectoryW") : \A k \in CallsOf("DeleteFileW") : k < i
    /\ CallsOf("RemoveDirectoryW") # {} =>
          \A f \in Listed(FALSE) : \E k \in CallsOf("DeleteFileW") : ecLog[k].path = f

\* removals go down the lexicographic order of the full paths, so that a
\* directory comes after every listed directory below it
DescendantsFirst ==
    \A i, k \in CallsOf("RemoveDirectoryW") :
        i < k => /\ LessChars(FullPath(ecLog[k].path), FullPath(ecLog[i].path))
                 /\ ~IsBelow(ecLog[k].path, ecLog[i].path)

\* at the return every listed file and every listed directory but the root was
\* tried once, whatever failed before
EverythingTried ==
    /\ {ecLog[i].path : i \in CallsOf("DeleteFileW")} = Listed(FALSE)
    /\ {ecLog[i].path : i \in CallsOf("RemoveDirectoryW")} = Listed(TRUE) \ {sRootDir}
    /\ Len(ecLog) = Cardinality(Listed(FALSE)) + Cardinality(Listed(TRUE) \ {sRootDir})

\* C30: DeleteAppLockerBinaryFiles never tries to remove the AppLocker directory
\* itself, tries every listed file before it removes any directory, and removes
\* the listed subdirectories in reverse lexicographic order of their full paths,
\* every directory after all listed directories below it; a failed deletion does
\* not stop the others; it returns true only if the listing succeeded and every
\* deletion tried succeeded; the error text is non-empty only if a deletion failed.
C30_DeleteFilesThenDirectories ==
    /\ FilesThenDirectories
    /\ DescendantsFirst
    /\ ecPc = "done" =>
          /\ ecFault.kind # "no root" => EverythingTried
          /\ bSuccess => /\ ecFault.kind # "no root"
                         /\ \A i \in 1..Len(ecLog) : ecLog[i].ok
          /\ sErrorInfo # <<>> => \E i \in 1..Len(ecLog) : ~ecLog[i].ok

\* a file two levels down was in use: its deletion and the removal of the two
\* directories above it failed, the other directories were still removed, in
\* the order a\a, a!\a, a!, a
C30_Witness ==
    /\ ecPc = "done"
    /\ ~bSuccess
    /\ Len(sErrorInfo) = 4
    /\ ecFault.kind = "file in use"
    /\ Len(ecFault.path) = 4
    /\ Cardinality(CallsOf("RemoveDirectoryW")) = 4
    /\ \E i, k \in CallsOf("RemoveDirectoryW") : i < k /\ ~ecLog[i].ok /\ ecLog[k].ok
    /\ ecLeft.dirs = {sRootDir, Subdirectory(sRootDir, SubdirNames[1]),
                      Subdirectory(Subdirectory(sRootDir, SubdirNames[1]), SubdirNames[1])}

====
